---- MODULE Spec2Model ----
(***************************************************************************)
(* TRGI_SimCore: the lattice (core/manifold.py), the single qubit          *)
(* (core/infon_qubit.py), the informational distance (core/geometry.py)    *)
(* and the two dynamics (core/dynamics.py) as state machines.              *)
(*                                                                         *)
(* Numbers.  Scalar cell values are floats; they are kept in halves        *)
(* (Unit = 1.0), so that int() and the test `== 1.0` are real operations.  *)
(* dynamics.py calls Manifold.neighbors_sum and Manifold._wrap; the        *)
(* Manifold of core/manifold.py names them get_neighbors_sum and           *)
(* _apply_boundary_conditions, and those are the bodies modelled.          *)
(***************************************************************************)
EXTENDS Integers, Sequences, FiniteSets, TLC

VARIABLES
    constructed,          \* the Manifold constructor returned (did not raise)
    rows, cols,           \* Manifold.rows, Manifold.cols
    infon_type,           \* Manifold.infon_type
    boundary_conditions,  \* Manifold.boundary_conditions
    grid,                 \* Manifold.grid: (r,c) -> cell value
    dyn,                  \* the dynamics object (kind "none": there is none)
    call,                 \* the last API call: operation, arguments, result
    err,                  \* the exception the last call raised ("" : none)
    nset,                 \* number of set_infon_state calls so far
    gen,                  \* number of step() calls so far
    grid0,                \* the grid the run started from
    pc,                   \* "step" inside HamiltonianDynamics.step(), else "idle"
    evlog,                \* the pair evolutions of the last step() call, in order
    qubit,                \* the last Qubit constructed outside the lattice
    sim                   \* the TRGIInteractiveSim object: history, step_count, ...

mvars == <<constructed, rows, cols, infon_type, boundary_conditions>>
qvars == <<pc, evlog, qubit, sim>>
vars == <<constructed, rows, cols, infon_type, boundary_conditions, grid,
          dyn, call, err, nset, gen, grid0, pc, evlog, qubit, sim>>

---------------------------------------------------------------------------
(* Bounds *)
MaxRows == 3
MaxCols == 3
MaxAlive == 3
MaxGen == 2
ApiRows == 2
ApiCols == 2
MaxSets == 1
WrapSpan == 4
GliderDim == 8
GliderGens == 4
LifeCells == 4
QCells == 4
QTilted == 2
QMaxSteps == 2
QAmp == 6
USamples == 4
GuiCells == 2
GuiMaxSteps == 2
GuiMaxLen == 3
GuiTilted == 1

(* 1.0 in the unit of the scalar cell values (halves) *)
Unit == 2

(* 1.0 in the unit of the amplitudes passed to Qubit(a, b) (fifths) *)
AmpDen == 5

(* 1.0 in the unit of the coupling J (quarters) *)
JOne == 4

---------------------------------------------------------------------------
(* Values and small helpers *)

Pos(R, C) == (0 .. R - 1) \X (0 .. C - 1)

InRange(R, C, r, c) == 0 <= r /\ r < R /\ 0 <= c /\ c < C

NoGrid == [p \in {} |-> 0]

\* np.zeros(dimensions, dtype=float)
ZeroGrid(R, C) == [p \in Pos(R, C) |-> 0]

\* int(x) of a float: truncation towards zero
ToInt(v) == IF v >= 0 THEN v \div Unit ELSE -((-v) \div Unit)

NoCall == [op |-> "none", r |-> 0, c |-> 0, value |-> 0, ret |-> 0, ret2 |-> 0,
           warned |-> FALSE]

\* the record of a call: operation, position argument, value argument, results
Called(op, r, c, value, ret, ret2, warned) ==
    [op |-> op, r |-> r, c |-> c, value |-> value, ret |-> ret, ret2 |-> ret2,
     warned |-> warned]

NoDyn == [kind |-> "none", rule_b |-> {}, rule_s |-> {}, J_base |-> 0, h |-> 0,
          dt |-> 0, use_geometric_coupling |-> FALSE]

---------------------------------------------------------------------------
(* core/manifold.py *)

\* Manifold.__init__: the fields of the new object, or the exception raised
ManifoldInit(dimensions, itype, bc) ==
    IF Len(dimensions) # 2
    THEN [err |-> "ValueError", rows |-> 0, cols |-> 0, infon_type |-> "",
          boundary_conditions |-> "", grid |-> NoGrid]
    ELSE IF itype = "scalar"
    THEN [err |-> "", rows |-> dimensions[1], cols |-> dimensions[2],
          infon_type |-> itype, boundary_conditions |-> bc,
          grid |-> ZeroGrid(dimensions[1], dimensions[2])]
    ELSE [err |-> "NotImplementedError", rows |-> dimensions[1],
          cols |-> dimensions[2], infon_type |-> itype,
          boundary_conditions |-> bc, grid |-> NoGrid]

\* _apply_boundary_conditions with a remainder that keeps the sign of r and c
apply_boundary_conditions_rem(R, C, bc, r, c) ==
    IF bc = "periodic"
    THEN [err |-> "", r |-> IF r < 0 THEN -((-r) % R) ELSE r % R,
          c |-> IF c < 0 THEN -((-c) % C) ELSE c % C]
    ELSE IF bc = "fixed" /\ ~InRange(R, C, r, c)
    THEN [err |-> "IndexError", r |-> r, c |-> c]
    ELSE [err |-> "", r |-> r, c |-> c]

\* Manifold._apply_boundary_conditions (called _wrap by dynamics.py)
apply_boundary_conditions(R, C, bc, r, c) ==
    IF bc = "periodic"
    THEN [err |-> "", r |-> r % R, c |-> c % C]
    ELSE IF bc = "fixed" /\ ~InRange(R, C, r, c)
    THEN [err |-> "IndexError", r |-> r, c |-> c]
    ELSE [err |-> "", r |-> r, c |-> c]

\* Manifold.get_infon_state
get_infon_state(R, C, bc, G, r, c) ==
    IF bc = "periodic"
    THEN LET w == apply_boundary_conditions(R, C, bc, r, c)
         IN  [err |-> "", ret |-> G[<<w.r, w.c>>]]
    ELSE IF bc = "fixed"
    THEN IF InRange(R, C, r, c)
         THEN [err |-> "", ret |-> G[<<r, c>>]]
         ELSE [err |-> "IndexError", ret |-> 0]
    ELSE [err |-> "", ret |-> 0]

\* Manifold.set_infon_state with boundary wrapping first (what the code does not do)
set_infon_state_wrapping(R, C, bc, G, r, c, value) ==
    LET w == apply_boundary_conditions(R, C, bc, r, c)
    IN  IF w.err = "" /\ InRange(R, C, w.r, w.c)
        THEN [grid |-> [G EXCEPT ![<<w.r, w.c>>] = value], warned |-> FALSE]
        ELSE [grid |-> G, warned |-> TRUE]

\* Manifold.set_infon_state: the new grid, and whether the warning was printed
set_infon_state(R, C, bc, G, r, c, value) ==
    IF InRange(R, C, r, c)
    THEN [grid |-> [G EXCEPT ![<<r, c>>] = value], warned |-> FALSE]
    ELSE [grid |-> G, warned |-> TRUE]

\* the (dr, dc) pairs of the two nested loops without the `continue` at (0,0)
MooreOffsetsWithCentre ==
    << <<-1, -1>>, <<-1, 0>>, <<-1, 1>>, <<0, -1>>, <<0, 0>>, <<0, 1>>,
       <<1, -1>>, <<1, 0>>, <<1, 1>> >>

\* the (dr, dc) pairs in the order of the two nested loops, (0,0) skipped
MooreOffsets ==
    << <<-1, -1>>, <<-1, 0>>, <<-1, 1>>, <<0, -1>>, <<0, 1>>,
       <<1, -1>>, <<1, 0>>, <<1, 1>> >>

\* one iteration of the loop body of get_neighbors_sum: the term added
NeighborTerm(R, C, bc, G, r, c) ==
    IF bc = "periodic"
    THEN LET w == apply_boundary_conditions(R, C, bc, r, c)
         IN  G[<<w.r, w.c>>]
    ELSE IF bc = "fixed"
    THEN IF InRange(R, C, r, c) THEN G[<<r, c>>] ELSE 0
    ELSE 0

RECURSIVE NeighborLoop(_, _, _, _, _, _, _)
NeighborLoop(R, C, bc, G, rc, cc, k) ==
    IF k = 0 THEN 0
    ELSE NeighborLoop(R, C, bc, G, rc, cc, k - 1)
         + NeighborTerm(R, C, bc, G, rc + MooreOffsets[k][1], cc + MooreOffsets[k][2])

\* Manifold.get_neighbors_sum (called neighbors_sum by dynamics.py)
get_neighbors_sum(R, C, bc, G, rc, cc, neighborhood_type) ==
    IF neighborhood_type = "moore"
    THEN [err |-> "", ret |-> NeighborLoop(R, C, bc, G, rc, cc, Len(MooreOffsets))]
    ELSE [err |-> "NotImplementedError", ret |-> 0]

\* np.random.rand(rows, cols) < density, as floats; u holds the samples
initialize_random(R, C, u, density) ==
    [p \in Pos(R, C) |-> IF u[p] < density THEN Unit ELSE 0]

\* a pattern array of integers that was not passed (None)
NoPattern == [given |-> FALSE, rows |-> 0, cols |-> 0, cells |-> NoGrid]

\* Manifold.initialize_infons with 'pattern' taking any array that was passed
initialize_infons_any_shape(R, C, G, method, kw) ==
    IF method = "pattern" /\ kw.pattern_array.given
    THEN [err |-> "",
          grid |-> [p \in Pos(kw.pattern_array.rows, kw.pattern_array.cols) |->
                       kw.pattern_array.cells[p] * Unit]]
    ELSE [err |-> IF method \in {"random", "clear"} THEN "" ELSE "ValueError",
          grid |-> IF method = "clear" THEN [p \in Pos(R, C) |-> kw.value]
                   ELSE IF method = "random"
                   THEN initialize_random(R, C, kw.u, kw.density)
                   ELSE G]

\* Manifold.initialize_infons: the new grid, or the exception raised.
\* kw holds the keyword arguments: density, u (the samples rand() returns),
\* pattern_array, value.
initialize_infons(R, C, G, method, kw) ==
    IF method = "random"
    THEN [err |-> "", grid |-> initialize_random(R, C, kw.u, kw.density)]
    ELSE IF method = "pattern"
    THEN IF ~kw.pattern_array.given
            \/ <<kw.pattern_array.rows, kw.pattern_array.cols>> # <<R, C>>
         THEN [err |-> "ValueError", grid |-> G]
         ELSE [err |-> "",
               grid |-> [p \in Pos(kw.pattern_array.rows, kw.pattern_array.cols) |->
                            kw.pattern_array.cells[p] * Unit]]
    ELSE IF method = "clear"
    THEN [err |-> "", grid |-> [p \in Pos(R, C) |-> kw.value]]
    ELSE [err |-> "ValueError", grid |-> G]

---------------------------------------------------------------------------
(* core/dynamics.py: GameOfLifeTRGI *)

\* a list argument that may be None: [given, val]
Omitted == [given |-> FALSE, val |-> {}]
Given(S) == [given |-> TRUE, val |-> S]

\* `x or default` for a list x: None and the empty list are both falsy
OrDefault(arg, default) == IF arg.given /\ arg.val # {} THEN arg.val ELSE default

\* GameOfLifeTRGI.__init__ without the check of manifold.infon_type
GameOfLifeInitUnchecked(itype, rule_b, rule_s) ==
    [err |-> "",
     dyn |-> [NoDyn EXCEPT !.kind = "gol",
                           !.rule_b = OrDefault(rule_b, {3}),
                           !.rule_s = OrDefault(rule_s, {2, 3})]]

\* GameOfLifeTRGI.__init__ with the default survival list [3]
GameOfLifeInitS3(itype, rule_b, rule_s) ==
    IF itype # "scalar"
    THEN [err |-> "ValueError", dyn |-> NoDyn]
    ELSE [err |-> "",
          dyn |-> [NoDyn EXCEPT !.kind = "gol",
                                !.rule_b = OrDefault(rule_b, {3}),
                                !.rule_s = OrDefault(rule_s, {3})]]

\* GameOfLifeTRGI.__init__: the new object, or the exception raised
GameOfLifeInit(itype, rule_b, rule_s) ==
    IF itype # "scalar"
    THEN [err |-> "ValueError", dyn |-> NoDyn]
    ELSE [err |-> "",
          dyn |-> [NoDyn EXCEPT !.kind = "gol",
                                !.rule_b = OrDefault(rule_b, {3}),
                                !.rule_s = OrDefault(rule_s, {2, 3})]]

\* the grid the loop of step() reads, given m.grid and new_grid: new_grid
StepReadsNewGrid(m_grid, new_grid) == new_grid

\* the grid the loop of step() reads, given m.grid and new_grid: m.grid
StepReads(m_grid, new_grid) == m_grid

\* the body of the two nested loops of step() for cell (r,c): the new new_grid
StepCell(R, C, bc, d, m_grid, new_grid, r, c) ==
    LET src == StepReads(m_grid, new_grid)
        alive == src[<<r, c>>] = Unit
        n == ToInt(get_neighbors_sum(R, C, bc, src, r, c, "moore").ret)
    IN  IF alive
        THEN IF n \notin d.rule_s THEN [new_grid EXCEPT ![<<r, c>>] = 0] ELSE new_grid
        ELSE IF n \in d.rule_b THEN [new_grid EXCEPT ![<<r, c>>] = Unit] ELSE new_grid

\* the inner loop of step(): the first k cells of row r, from new_grid
RECURSIVE StepRow(_, _, _, _, _, _, _, _)
StepRow(R, C, bc, d, m_grid, new_grid, r, k) ==
    IF k = 0 THEN new_grid
    ELSE StepCell(R, C, bc, d, m_grid,
                  StepRow(R, C, bc, d, m_grid, new_grid, r, k - 1), r, k - 1)

\* the outer loop of step(): the first r rows, from new_grid = m.grid.copy()
RECURSIVE StepLoop(_, _, _, _, _, _)
StepLoop(R, C, bc, d, m_grid, r) ==
    IF r = 0 THEN m_grid
    ELSE LET new_grid == StepLoop(R, C, bc, d, m_grid, r - 1)
         IN  IF DOMAIN new_grid = DOMAIN m_grid
             THEN StepRow(R, C, bc, d, m_grid, new_grid, r - 1, C)
             ELSE new_grid

\* GameOfLifeTRGI.step: the grid assigned to m.grid
GameOfLifeStep(R, C, bc, d, m_grid) == StepLoop(R, C, bc, d, m_grid, R)

\* HamiltonianDynamics.__init__: the new object, or the exception raised
HamiltonianInit(itype, J, h, dt, use_geometric_coupling) ==
    IF itype # "qubit"
    THEN [err |-> "ValueError", dyn |-> NoDyn]
    ELSE [err |-> "",
          dyn |-> [NoDyn EXCEPT !.kind = "ham", !.J_base = J, !.h = h, !.dt = dt,
                                !.use_geometric_coupling = use_geometric_coupling]]

---------------------------------------------------------------------------
(* core/infon_qubit.py.  A Qubit's state vector is kept exactly: the record *)
(* [a, b, n2] is the vector (a, b) / sqrt(n2) with Gaussian integers a, b.  *)
(* nan marks a state vector whose entries are NaN.                          *)

CMul(x, y) == <<x[1] * y[1] - x[2] * y[2], x[1] * y[2] + x[2] * y[1]>>
CConj(x) == <<x[1], -x[2]>>
CAbs2(x) == x[1] * x[1] + x[2] * x[2]
CZero == <<0, 0>>
COne == <<1, 0>>

\* i^t
IPow(t) == CASE t % 4 = 0 -> <<1, 0>> [] t % 4 = 1 -> <<0, 1>>
             [] t % 4 = 2 -> <<-1, 0>> [] OTHER -> <<0, -1>>

Vec(a, b, n2) == [a |-> a, b |-> b, n2 |-> n2, nan |-> FALSE]
NaNVec == [a |-> CZero, b |-> CZero, n2 |-> 0, nan |-> TRUE]
Ket0 == Vec(COne, CZero, 1)

\* an amplitude argument that may be None; z is in units of 1/AmpDen
NoAmp == [given |-> FALSE, z |-> CZero]
Amp(z) == [given |-> TRUE, z |-> z]

\* np.sqrt of a real n / AmpDen^2, in units of 1/AmpDen (n a perfect square)
SqrtAmp(n) == CHOOSE k \in 0 .. AmpDen : k * k = n

\* a = cos(theta/2), b = exp(i phi) sin(theta/2) for theta = tq * pi/2 and
\* phi = pq * pi/2.  theta = arccos(2 rand() - 1) with rand() in [0, 1) is pi/2
\* (tq = 1) or pi (tq = 2) for the samples kept in the model, and never 0.
SampledVec(smp) ==
    IF smp.tq = 1 THEN Vec(COne, IPow(smp.pq), 2)
    ELSE Vec(CZero, IPow(smp.pq), 1)

\* the lines of Qubit.__init__ that fill in a and b: the vector (a, b)
ResolveAmplitudes(a, b, smp) ==
    IF ~a.given /\ ~b.given THEN SampledVec(smp)
    ELSE IF ~a.given
    THEN IF CAbs2(b.z) > AmpDen * AmpDen THEN NaNVec
         ELSE Vec(<<SqrtAmp(AmpDen * AmpDen - CAbs2(b.z)), 0>>, b.z, AmpDen * AmpDen)
    ELSE IF ~b.given
    THEN IF CAbs2(a.z) > AmpDen * AmpDen THEN NaNVec
         ELSE Vec(a.z, <<SqrtAmp(AmpDen * AmpDen - CAbs2(a.z)), 0>>, AmpDen * AmpDen)
    ELSE Vec(a.z, b.z, AmpDen * AmpDen)

\* the end of Qubit.__init__: norm = hypot(|a|, |b|); (1,0) when norm < 1e-9
\* (in the model: when a = b = 0), else (a, b) / norm
Normalize(v) ==
    IF v.nan THEN NaNVec
    ELSE IF CAbs2(v.a) + CAbs2(v.b) = 0 THEN Ket0
    ELSE Vec(v.a, v.b, CAbs2(v.a) + CAbs2(v.b))

\* Qubit.__init__(a, b): the state of the new Qubit
QubitInit(a, b, smp) == Normalize(ResolveAmplitudes(a, b, smp))

Ket1 == Vec(CZero, COne, 1)

\* Qubit.measure with `<=` in place of `<`
measure_inclusive(q, k) ==
    LET result == IF ~q.nan /\ k * q.n2 <= CAbs2(q.a) * USamples THEN 0 ELSE 1
    IN  [result |-> result, state |-> IF result = 0 THEN Ket0 ELSE Ket1]

\* Qubit.measure when np.random.rand() returns k / USamples: the bit returned
\* and the new state.  p0 = |state[0]|^2; a comparison with NaN is False.
measure(q, k) ==
    LET result == IF ~q.nan /\ k * q.n2 < CAbs2(q.a) * USamples THEN 0 ELSE 1
    IN  [result |-> result, state |-> IF result = 0 THEN Ket0 ELSE Ket1]

\* Qubit.p0: |state[0]|^2 as the fraction num / den, or NaN
p0(q) == [num |-> CAbs2(q.a), den |-> q.n2, nan |-> q.nan]

\* Qubit(a=v[0], b=v[1]) for a computed vector v
QubitOf(v) == Normalize(v)

---------------------------------------------------------------------------
(* core/geometry.py.  An angle is a quarter turn q (in units of pi/2) plus   *)
(* off times the 4.5e-5 by which the 1e-9 added to the denominator moves    *)
(* the angle of aligned vectors: q * pi/2 + off * arccos(1 / (1 + 1e-9)).   *)
(* The coupling J_eff is computed from q alone.                             *)

\* bloch_vector(q), times q.n2
bloch_vector(q) ==
    << 2 * CMul(CConj(q.a), q.b)[1],
       2 * CMul(CConj(q.b), q.a)[2],
       CAbs2(q.a) - CAbs2(q.b) >>

Dot(v, w) == v[1] * w[1] + v[2] * w[2] + v[3] * w[3]

\* arccos(clip(dot / (norm1 * norm2 + 1e-9), -1, 1)) in units of pi/2, from
\* the squares of the norms; 3 stands for an angle off the quarter turns
ArccosQuarter(dot, n1sq, n2sq) ==
    IF dot = 0 THEN 1
    ELSE IF dot * dot = n1sq * n2sq THEN (IF dot > 0 THEN 0 ELSE 2)
    ELSE 3

\* arccos(clip(dot / (norm1 * norm2), -1, 1)): the angle without the 1e-9
ArccosNoEpsilon(dot, n1sq, n2sq) ==
    [q |-> ArccosQuarter(dot, n1sq, n2sq), off |-> 0]

\* arccos(clip(dot / (norm1 * norm2 + 1e-9), -1, 1)): the cosine is clipped
\* to 1 or -1 only when |dot| exceeds the norm product; otherwise the 1e-9
\* moves the cosine towards 0, the angle towards pi/2
Arccos(dot, n1sq, n2sq) ==
    [q |-> ArccosQuarter(dot, n1sq, n2sq),
     off |-> IF dot = 0 \/ dot * dot > n1sq * n2sq THEN 0
             ELSE IF dot > 0 THEN 1 ELSE -1]

\* EmergentGeometry.compute_local_metric_analogue(p1, p2): on a scalar
\* lattice hypot(r1 - r2, c1 - c2), kept as its square sq; on a qubit lattice
\* the angle between the two Bloch vectors
compute_local_metric_analogue(R, C, bc, itype, G, p1, p2) ==
    IF itype = "scalar"
    THEN [sq |-> (p1[1] - p2[1]) * (p1[1] - p2[1]) + (p1[2] - p2[2]) * (p1[2] - p2[2]),
          q |-> 0, off |-> 0]
    ELSE LET v1 == bloch_vector(get_infon_state(R, C, bc, G, p1[1], p1[2]).ret)
             v2 == bloch_vector(get_infon_state(R, C, bc, G, p2[1], p2[2]).ret)
             angle == Arccos(Dot(v1, v2), Dot(v1, v1), Dot(v2, v2))
         IN  [sq |-> 0, q |-> angle.q, off |-> angle.off]

---------------------------------------------------------------------------
(* core/dynamics.py: HamiltonianDynamics.  J is kept in quarters (JOne is   *)
(* 1.0), dt in units of pi, h = 0: the propagator exp(-i H dt) is then      *)
(* exp(i theta Z(x)Z) with theta = J_eff * dt, a multiple of pi/4.          *)

\* the neighbour whose distance to pos modulates J: _wrap(pos[0], pos[1] + 1)
CouplingNeighbour(R, C, bc, pos, pos2) ==
    LET w == apply_boundary_conditions(R, C, bc, pos[1], pos[2] + 1)
    IN  <<w.r, w.c>>

\* J_base * (1 - dist / pi), dist in units of pi/2
CoupledJ(J, dist) == (J * (2 - dist)) \div 2

\* get_local_hamiltonian(pos), called for the pair (pos, pos2): J_eff (the
\* Hamiltonian is -J_eff Z(x)Z - h (X(x)I + I(x)X)), or the exception of _wrap
get_local_hamiltonian(R, C, bc, G, d, pos, pos2) ==
    IF d.use_geometric_coupling
    THEN IF apply_boundary_conditions(R, C, bc, pos[1], pos[2] + 1).err # ""
         THEN [err |-> "IndexError", J_eff |-> 0]
         ELSE [err |-> "",
               J_eff |-> CoupledJ(d.J_base,
                            compute_local_metric_analogue(R, C, bc, "qubit", G, pos,
                                CouplingNeighbour(R, C, bc, pos, pos2)).q)]
    ELSE [err |-> "", J_eff |-> d.J_base]

\* np.kron(q1.state, q2.state): four amplitudes over sqrt(n2)
Kron(q1, q2) ==
    [psi |-> <<CMul(q1.a, q2.a), CMul(q1.a, q2.b), CMul(q1.b, q2.a), CMul(q1.b, q2.b)>>,
     n2 |-> q1.n2 * q2.n2]

\* expm(-1j * H_pair * dt) @ pair_state for h = 0 and theta = te * pi/4, te
\* even: exp(i theta) on |00>, |11> and exp(-i theta) on |01>, |10>
Propagate(te, ps) ==
    LET t == te \div 2
    IN  [psi |-> <<CMul(IPow(t), ps.psi[1]), CMul(IPow(4 - (t % 4)), ps.psi[2]),
                   CMul(IPow(4 - (t % 4)), ps.psi[3]), CMul(IPow(t), ps.psi[4])>>,
         n2 |-> ps.n2]

\* _unentangle_and_update reading the first column and the first row of m
\* whatever they hold
UnentangleFirstColumn(ps) ==
    LET m == ps.psi
    IN  [q1 |-> Vec(m[1], m[3], CAbs2(m[1]) + CAbs2(m[3])),
         q2 |-> Vec(m[1], m[2], CAbs2(m[1]) + CAbs2(m[2]))]

\* _unentangle_and_update for a product state of norm 1, where S[0] = 1 and
\* U[:,0] (x) Vh[0,:] is the 2x2 matrix m itself: U[:,0] along the first
\* non-zero column of m, Vh[0,:] along the row of that column's first non-zero
\* entry (the pivot), with the phase that makes the product equal m.  LAPACK
\* may move a phase factor from one vector to the other; the Bloch vectors of
\* the two qubits do not depend on it.
Unentangle(ps) ==
    LET m == ps.psi
        col == IF m[1] # CZero \/ m[3] # CZero THEN <<m[1], m[3]>> ELSE <<m[2], m[4]>>
        row == IF m[1] # CZero \/ m[2] # CZero THEN <<m[1], m[2]>> ELSE <<m[3], m[4]>>
        pivot == IF col[1] # CZero THEN col[1] ELSE col[2]
        v == <<CMul(row[1], CConj(pivot)), CMul(row[2], CConj(pivot))>>
    IN  [q1 |-> Vec(col[1], col[2], CAbs2(col[1]) + CAbs2(col[2])),
         q2 |-> Vec(v[1], v[2], CAbs2(v[1]) + CAbs2(v[2]))]

\* a Qubit object held by the lattice: its state and the identity id of the
\* object, which tells a cell that was given a new object from a cell whose
\* object was modified
QubitObject(q, id) == [a |-> q.a, b |-> q.b, n2 |-> q.n2, nan |-> q.nan, id |-> id]

\* the state of a Qubit object
StateOf(o) == [a |-> o.a, b |-> o.b, n2 |-> o.n2, nan |-> o.nan]

\* the identity of the next object constructed: one never held by grid G
NextId(G) ==
    LET ids == {G[p].id : p \in DOMAIN G}
    IN  1 + (CHOOSE k \in ids : \A j \in ids : j <= k)

\* _evolve_pair assigning q1.state and q2.state instead of storing new Qubits
evolve_pair_in_place(R, C, bc, G, d, pos1_raw, pos2_raw) ==
    LET w1 == apply_boundary_conditions(R, C, bc, pos1_raw[1], pos1_raw[2])
        w2 == apply_boundary_conditions(R, C, bc, pos2_raw[1], pos2_raw[2])
        pos1 == <<w1.r, w1.c>>
        pos2 == <<w2.r, w2.c>>
        q1 == get_infon_state(R, C, bc, G, pos1[1], pos1[2]).ret
        q2 == get_infon_state(R, C, bc, G, pos2[1], pos2[2]).ret
        H_pair == get_local_hamiltonian(R, C, bc, G, d, pos1, pos2)
        evolved == Propagate(H_pair.J_eff * d.dt, Kron(q1, q2))
        new == Unentangle(evolved)
        g1 == set_infon_state(R, C, bc, G, pos1[1], pos1[2],
                              QubitObject(QubitOf(new.q1), q1.id)).grid
        g2 == set_infon_state(R, C, bc, g1, pos2[1], pos2[2],
                              QubitObject(QubitOf(new.q2), q2.id)).grid
    IN  IF w1.err # "" \/ w2.err # ""
        THEN [err |-> "IndexError", grid |-> G, pos1 |-> pos1_raw, pos2 |-> pos2_raw,
              J_eff |-> 0]
        ELSE IF H_pair.err # ""
        THEN [err |-> H_pair.err, grid |-> G, pos1 |-> pos1, pos2 |-> pos2, J_eff |-> 0]
        ELSE [err |-> "", grid |-> g2, pos1 |-> pos1, pos2 |-> pos2,
              J_eff |-> H_pair.J_eff]

\* _evolve_pair reading q1 and q2 from a copy of the grid taken before step()
evolve_pair_from_snapshot(R, C, bc, G, d, pos1_raw, pos2_raw) ==
    LET w1 == apply_boundary_conditions(R, C, bc, pos1_raw[1], pos1_raw[2])
        w2 == apply_boundary_conditions(R, C, bc, pos2_raw[1], pos2_raw[2])
        pos1 == <<w1.r, w1.c>>
        pos2 == <<w2.r, w2.c>>
        q1 == get_infon_state(R, C, bc, grid0, pos1[1], pos1[2]).ret
        q2 == get_infon_state(R, C, bc, grid0, pos2[1], pos2[2]).ret
        H_pair == get_local_hamiltonian(R, C, bc, G, d, pos1, pos2)
        evolved == Propagate(H_pair.J_eff * d.dt, Kron(q1, q2))
        new == Unentangle(evolved)
        g1 == set_infon_state(R, C, bc, G, pos1[1], pos1[2],
                              QubitObject(QubitOf(new.q1), NextId(G))).grid
        g2 == set_infon_state(R, C, bc, g1, pos2[1], pos2[2],
                              QubitObject(QubitOf(new.q2), NextId(G) + 1)).grid
    IN  IF w1.err # "" \/ w2.err # ""
        THEN [err |-> "IndexError", grid |-> G, pos1 |-> pos1_raw, pos2 |-> pos2_raw,
              J_eff |-> 0]
        ELSE IF H_pair.err # ""
        THEN [err |-> H_pair.err, grid |-> G, pos1 |-> pos1, pos2 |-> pos2, J_eff |-> 0]
        ELSE [err |-> "", grid |-> g2, pos1 |-> pos1, pos2 |-> pos2,
              J_eff |-> H_pair.J_eff]

\* _evolve_pair wrapping its two positions periodically whatever the
\* boundary conditions of the manifold
evolve_pair_always_wrapping(R, C, bc, G, d, pos1_raw, pos2_raw) ==
    LET w1 == apply_boundary_conditions(R, C, "periodic", pos1_raw[1], pos1_raw[2])
        w2 == apply_boundary_conditions(R, C, "periodic", pos2_raw[1], pos2_raw[2])
        pos1 == <<w1.r, w1.c>>
        pos2 == <<w2.r, w2.c>>
        q1 == get_infon_state(R, C, bc, G, pos1[1], pos1[2]).ret
        q2 == get_infon_state(R, C, bc, G, pos2[1], pos2[2]).ret
        H_pair == get_local_hamiltonian(R, C, bc, G, d, pos1, pos2)
        evolved == Propagate(H_pair.J_eff * d.dt, Kron(q1, q2))
        new == Unentangle(evolved)
        g1 == set_infon_state(R, C, bc, G, pos1[1], pos1[2],
                              QubitObject(QubitOf(new.q1), NextId(G))).grid
        g2 == set_infon_state(R, C, bc, g1, pos2[1], pos2[2],
                              QubitObject(QubitOf(new.q2), NextId(G) + 1)).grid
    IN  IF H_pair.err # ""
        THEN [err |-> H_pair.err, grid |-> G, pos1 |-> pos1, pos2 |-> pos2, J_eff |-> 0]
        ELSE [err |-> "", grid |-> g2, pos1 |-> pos1, pos2 |-> pos2,
              J_eff |-> H_pair.J_eff]

\* _evolve_pair(pos1_raw, pos2_raw): the exception raised or the new grid,
\* with the wrapped positions and the J_eff used
evolve_pair(R, C, bc, G, d, pos1_raw, pos2_raw) ==
    LET w1 == apply_boundary_conditions(R, C, bc, pos1_raw[1], pos1_raw[2])
        w2 == apply_boundary_conditions(R, C, bc, pos2_raw[1], pos2_raw[2])
        pos1 == <<w1.r, w1.c>>
        pos2 == <<w2.r, w2.c>>
        q1 == get_infon_state(R, C, bc, G, pos1[1], pos1[2]).ret
        q2 == get_infon_state(R, C, bc, G, pos2[1], pos2[2]).ret
        H_pair == get_local_hamiltonian(R, C, bc, G, d, pos1, pos2)
        evolved == Propagate(H_pair.J_eff * d.dt, Kron(q1, q2))
        new == Unentangle(evolved)
        g1 == set_infon_state(R, C, bc, G, pos1[1], pos1[2],
                              QubitObject(QubitOf(new.q1), NextId(G))).grid
        g2 == set_infon_state(R, C, bc, g1, pos2[1], pos2[2],
                              QubitObject(QubitOf(new.q2), NextId(G) + 1)).grid
    IN  IF w1.err # "" \/ w2.err # ""
        THEN [err |-> "IndexError", grid |-> G, pos1 |-> pos1_raw, pos2 |-> pos2_raw,
              J_eff |-> 0]
        ELSE IF H_pair.err # ""
        THEN [err |-> H_pair.err, grid |-> G, pos1 |-> pos1, pos2 |-> pos2, J_eff |-> 0]
        ELSE [err |-> "", grid |-> g2, pos1 |-> pos1, pos2 |-> pos2,
              J_eff |-> H_pair.J_eff]

\* the pairs step() evolves, vertical sweep first
StepPairsVerticalFirst(R, C) ==
    [k \in 1 .. 2 * R * C |->
        LET j == (k - 1) % (R * C)
            r == j \div C
            c == j % C
        IN  IF k <= R * C THEN <<"ver", <<r, c>>, <<r + 1, c>>>>
            ELSE <<"hor", <<r, c>>, <<r, c + 1>>>>]

\* the arguments of the _evolve_pair calls of step(), in order: the two
\* nested loops over the horizontal pairs, then those over the vertical pairs
StepPairs(R, C) ==
    [k \in 1 .. 2 * R * C |->
        LET j == (k - 1) % (R * C)
            r == j \div C
            c == j % C
        IN  IF k <= R * C THEN <<"hor", <<r, c>>, <<r, c + 1>>>>
            ELSE <<"ver", <<r, c>>, <<r + 1, c>>>>]

\* HamiltonianDynamics.step() from its k-th _evolve_pair call on, on grid G:
\* the exception that ended it, or the grid reached
RECURSIVE HamiltonianStepLoop(_, _, _, _, _, _)
HamiltonianStepLoop(R, C, bc, G, d, k) ==
    IF k > 2 * R * C THEN [err |-> "", grid |-> G]
    ELSE LET pr == StepPairs(R, C)[k]
         IN  CHOOSE out \in
                 {IF res.err # "" THEN [err |-> res.err, grid |-> res.grid]
                  ELSE HamiltonianStepLoop(R, C, bc, res.grid, d, k + 1) :
                      res \in {evolve_pair(R, C, bc, G, d, pr[2], pr[3])}} : TRUE

\* HamiltonianDynamics.step()
HamiltonianStep(R, C, bc, G, d) == HamiltonianStepLoop(R, C, bc, G, d, 1)

---------------------------------------------------------------------------
(* Inputs *)

NoQubit == [made |-> FALSE, a |-> NoAmp, b |-> NoAmp, state |-> Ket0]

\* self.history of the driver: four lists.  A sample of entropy, mean
\* curvature or mean energy is kept as the step count it was taken at.
NoHistory == [step |-> <<>>, entropy |-> <<>>, avg_curvature |-> <<>>, avg_energy |-> <<>>]

\* geometry.curvature_field and tensor.T00_matrix, each kept as the grid it
\* was computed from; the zero arrays of the constructors come from no grid
NoFields == [curvature_of |-> NoGrid, energy_of |-> NoGrid]

\* no TRGIInteractiveSim object
NoSim == [made |-> FALSE, running |-> FALSE, step_count |-> 0, tensor |-> FALSE,
          history |-> NoHistory, fields |-> NoFields]

QIdle == pc = "idle" /\ evlog = <<>> /\ qubit = NoQubit /\ sim = NoSim

InfonTypes == {"scalar", "qubit"}
Boundaries == {"periodic", "fixed", "reflective"}

\* positions a caller passes: the grid and one ring around it
Window(R, C) == (-1 .. R) \X (-1 .. C)

\* 0.0, 1.0, and a float outside [0, 1]: 2.0
ScalarValues == {0, Unit, 2 * Unit}

ConstSamples(R, C) == {[p \in Pos(R, C) |-> v] : v \in {0, 1}}

Ones(R, C) == [given |-> TRUE, rows |-> R, cols |-> C, cells |-> [p \in Pos(R, C) |-> 1]]
Checker(R, C) ==
    [given |-> TRUE, rows |-> R, cols |-> C,
     cells |-> [p \in Pos(R, C) |-> (p[1] + p[2]) % 2]]

Kw(density, u, pattern_array, value) ==
    [density |-> density, u |-> u, pattern_array |-> pattern_array, value |-> value]

\* the initialize_infons calls tried: <<method, kwargs>>
InitCalls(R, C) ==
    {<<"random", Kw(d, u, NoPattern, 0)>> : d \in {0, 1, Unit}, u \in ConstSamples(R, C)}
    \cup {<<"pattern", Kw(1, ZeroGrid(R, C), pa, 0)>> :
              pa \in {NoPattern, Ones(R, C), Checker(R, C), Ones(R + 1, C)}}
    \cup {<<"clear", Kw(1, ZeroGrid(R, C), NoPattern, v)>> : v \in ScalarValues}
    \cup {<<"shuffle", Kw(1, ZeroGrid(R, C), NoPattern, 0)>>}

---------------------------------------------------------------------------
(* The lattice API as a state machine: Manifold(...), initialize_infons,   *)
(* set_infon_state                                                         *)

\* the state after Manifold(dimensions, itype, bc) returned or raised
Construct(dimensions, itype, bc) ==
    LET m == ManifoldInit(dimensions, itype, bc)
    IN  /\ constructed = (m.err = "")
        /\ rows = m.rows
        /\ cols = m.cols
        /\ infon_type = m.infon_type
        /\ boundary_conditions = m.boundary_conditions
        /\ grid = m.grid
        /\ grid0 = m.grid
        /\ dyn = NoDyn
        /\ call = Called("Manifold", 0, 0, 0, 0, 0, FALSE)
        /\ err = m.err
        /\ nset = 0
        /\ gen = 0
        /\ QIdle

ApiDims ==
    {<<r, c>> : r \in 1 .. ApiRows, c \in 1 .. ApiCols} \cup {<<ApiRows>>, <<1, 1, 1>>}

Init == \E d \in ApiDims, t \in InfonTypes, bc \in Boundaries : Construct(d, t, bc)

InitializeInfons ==
    /\ constructed
    /\ \E ic \in InitCalls(rows, cols) :
          LET res == initialize_infons(rows, cols, grid, ic[1], ic[2])
          IN  /\ grid' = res.grid
              /\ err' = res.err
              /\ call' = Called(ic[1], 0, 0,
                                 IF ic[1] = "pattern" THEN ic[2].pattern_array
                                 ELSE ic[2].value,
                                 0, 0, FALSE)
    /\ UNCHANGED <<mvars, dyn, nset, gen, grid0, qvars>>

SetInfonState ==
    /\ constructed
    /\ nset < MaxSets
    /\ \E p \in Window(rows, cols), v \in ScalarValues :
          LET res == set_infon_state(rows, cols, boundary_conditions, grid, p[1], p[2], v)
          IN  /\ grid' = res.grid
              /\ call' = Called("set", p[1], p[2], v, 0, 0, res.warned)
    /\ err' = ""
    /\ nset' = nset + 1
    /\ UNCHANGED <<mvars, dyn, gen, grid0, qvars>>

Next == InitializeInfons \/ SetInfonState

Spec == Init /\ [][Next]_vars

---------------------------------------------------------------------------
(* Manifold._apply_boundary_conditions as a function of its arguments *)

LatticeDims == {<<r, c>> : r \in 1 .. MaxRows, c \in 1 .. MaxCols}

InitWrap == \E d \in LatticeDims, bc \in Boundaries : Construct(d, "scalar", bc)

CallWrap ==
    /\ constructed
    /\ \E r \in -WrapSpan .. rows - 1 + WrapSpan, c \in -WrapSpan .. cols - 1 + WrapSpan :
          LET res == apply_boundary_conditions(rows, cols, boundary_conditions, r, c)
          IN  /\ call' = Called("wrap", r, c, 0, res.r, res.c, FALSE)
              /\ err' = res.err
    /\ UNCHANGED <<mvars, grid, dyn, nset, gen, grid0, qvars>>

SpecWrap == InitWrap /\ [][CallWrap]_vars

---------------------------------------------------------------------------
(* Manifold.get_neighbors_sum on a lattice after initialize_infons() *)

\* the samples rand() can return (0.0 or 0.5 per cell), at most MaxAlive below 0.5
RandSamples(R, C) ==
    {u \in [Pos(R, C) -> {0, 1}] : Cardinality({p \in Pos(R, C) : u[p] = 0}) <= MaxAlive}

\* the state after Manifold(d, "scalar", bc) and initialize_infons(): density 0.5
Populated(d, bc, u) ==
    LET m == ManifoldInit(d, "scalar", bc)
        g == initialize_infons(m.rows, m.cols, m.grid, "random", Kw(1, u, NoPattern, 0)).grid
    IN  /\ constructed = (m.err = "")
        /\ rows = m.rows
        /\ cols = m.cols
        /\ infon_type = m.infon_type
        /\ boundary_conditions = m.boundary_conditions
        /\ grid = g
        /\ grid0 = g
        /\ call = Called("random", 0, 0, 0, 0, 0, FALSE)
        /\ err = ""
        /\ nset = 0
        /\ gen = 0
        /\ QIdle

InitNbr ==
    /\ \E d \in LatticeDims, bc \in Boundaries :
          \E u \in RandSamples(d[1], d[2]) : Populated(d, bc, u)
    /\ dyn = NoDyn

\* one query per behaviour: a query leaves the lattice as it was, so a second
\* one reaches nothing new
CallNeighborsSum ==
    /\ constructed
    /\ call.op = "random"
    /\ \E p \in Pos(rows, cols), nt \in {"moore", "von_neumann"} :
          LET res == get_neighbors_sum(rows, cols, boundary_conditions, grid,
                                       p[1], p[2], nt)
          IN  /\ call' = Called(IF nt = "moore" THEN "nsum" ELSE "nsum_other",
                                 p[1], p[2], 0, res.ret, 0, FALSE)
              /\ err' = res.err
    /\ UNCHANGED <<mvars, grid, dyn, nset, gen, grid0, qvars>>

SpecNbr == InitNbr /\ [][CallNeighborsSum]_vars

---------------------------------------------------------------------------
(* GameOfLifeTRGI on a populated lattice *)

CaBoundaries == {"periodic", "fixed"}

\* the (rule_b, rule_s) arguments tried
CaRules ==
    {<<Omitted, Omitted>>, <<Given({2}), Given({1, 2})>>, <<Given({1, 3}), Omitted>>}

InitCA ==
    \E d \in LatticeDims, bc \in CaBoundaries, rule \in CaRules :
        /\ \E u \in RandSamples(d[1], d[2]) : Populated(d, bc, u)
        /\ dyn = GameOfLifeInit("scalar", rule[1], rule[2]).dyn

\* dynamics.step() for a GameOfLifeTRGI, at most `limit` times
StepUpTo(limit) ==
    /\ constructed
    /\ dyn.kind = "gol"
    /\ gen < limit
    /\ grid' = GameOfLifeStep(rows, cols, boundary_conditions, dyn, grid)
    /\ call' = Called("step", 0, 0, 0, 0, 0, FALSE)
    /\ err' = ""
    /\ gen' = gen + 1
    /\ UNCHANGED <<mvars, dyn, nset, grid0, qvars>>

Step == StepUpTo(MaxGen)

SpecCA == InitCA /\ [][Step]_vars

---------------------------------------------------------------------------
(* A scalar lattice under every operation that writes it: initialize_infons, *)
(* set_infon_state and GameOfLifeTRGI.step                                   *)

LifeDims ==
    {d \in (1 .. LifeCells) \X (1 .. LifeCells) : d[1] * d[2] <= LifeCells}

InitLife == \E d \in LifeDims, bc \in CaBoundaries : Construct(d, "scalar", bc)

\* GameOfLifeTRGI(manifold) with the default rule
NewLife ==
    /\ constructed
    /\ dyn.kind = "none"
    /\ dyn' = GameOfLifeInit(infon_type, Omitted, Omitted).dyn
    /\ err' = GameOfLifeInit(infon_type, Omitted, Omitted).err
    /\ call' = Called("GameOfLifeTRGI", 0, 0, 0, 0, 0, FALSE)
    /\ UNCHANGED <<mvars, grid, nset, gen, grid0, qvars>>

NextLife == NewLife \/ InitializeInfons \/ SetInfonState \/ Step

SpecLife == InitLife /\ [][NextLife]_vars

---------------------------------------------------------------------------
(* GameOfLifeTRGI constructed with given, empty and omitted rule lists *)

\* the (rule_b, rule_s) arguments tried, empty lists among them
RuleArgs ==
    CaRules \cup {<<Given({}), Omitted>>, <<Omitted, Given({})>>, <<Given({}), Given({})>>}

InitRule ==
    /\ \E d \in LifeDims, bc \in CaBoundaries :
          \E u \in RandSamples(d[1], d[2]) : Populated(d, bc, u)
    /\ dyn = NoDyn

\* GameOfLifeTRGI(manifold, rule_b, rule_s); the arguments stay on record
NewAutomaton ==
    /\ constructed
    /\ dyn.kind = "none"
    /\ \E rule \in RuleArgs :
          LET res == GameOfLifeInit(infon_type, rule[1], rule[2])
          IN  /\ dyn' = res.dyn
              /\ err' = res.err
              /\ call' = Called("GameOfLifeTRGI", 0, 0,
                                [rule_b |-> rule[1], rule_s |-> rule[2]], 0, 0, FALSE)
    /\ UNCHANGED <<mvars, grid, nset, gen, grid0, qvars>>

\* dynamics.step() of that automaton, at most MaxGen times
StepAutomaton ==
    /\ constructed
    /\ dyn.kind = "gol"
    /\ gen < MaxGen
    /\ grid' = GameOfLifeStep(rows, cols, boundary_conditions, dyn, grid)
    /\ call' = Called("step", 0, 0, call.value, 0, 0, FALSE)
    /\ err' = ""
    /\ gen' = gen + 1
    /\ UNCHANGED <<mvars, dyn, nset, grid0, qvars>>

NextRule == NewAutomaton \/ StepAutomaton

SpecRule == InitRule /\ [][NextRule]_vars

---------------------------------------------------------------------------
(* The glider on a periodic lattice *)

\* the Conway glider with its top-left corner at (r0, c0), as an integer array
GliderArray(R, C, r0, c0) ==
    LET cells == {<<0, 1>>, <<1, 2>>, <<2, 0>>, <<2, 1>>, <<2, 2>>}
    IN  [given |-> TRUE, rows |-> R, cols |-> C,
         cells |-> [p \in Pos(R, C) |->
                      IF \E q \in cells : p = <<(r0 + q[1]) % R, (c0 + q[2]) % C>>
                      THEN 1 ELSE 0]]

InitGlider ==
    \E R \in 8 .. GliderDim, C \in 8 .. GliderDim :
      \E r0 \in 0 .. R - 1, c0 \in 0 .. C - 1 :
        LET m == ManifoldInit(<<R, C>>, "scalar", "periodic")
            g == initialize_infons(R, C, m.grid, "pattern",
                                   Kw(1, m.grid, GliderArray(R, C, r0, c0), 0)).grid
        IN  /\ constructed = (m.err = "")
            /\ rows = m.rows
            /\ cols = m.cols
            /\ infon_type = m.infon_type
            /\ boundary_conditions = m.boundary_conditions
            /\ grid = g
            /\ grid0 = g
            /\ dyn = GameOfLifeInit(m.infon_type, Omitted, Omitted).dyn
            /\ call = Called("pattern", 0, 0, 0, 0, 0, FALSE)
            /\ err = ""
            /\ nset = 0
            /\ gen = 0
            /\ QIdle

GliderStep == StepUpTo(GliderGens)

SpecGlider == InitGlider /\ [][GliderStep]_vars

---------------------------------------------------------------------------
(* The two dynamics constructors, and HamiltonianDynamics.step() pair by    *)
(* pair, on scalar lattices and on qubit lattices                           *)

QDims == {<<r, c>> : r \in 1 .. QCells, c \in 1 .. QCells} \cap
         {d \in (1 .. QCells) \X (1 .. QCells) : d[1] * d[2] <= QCells}

\* the samples a cell is drawn from: |1>, and (|0> + exp(i phi)|1>)/sqrt 2 for
\* phi = 0, pi/2, pi
PoleSample == [tq |-> 2, pq |-> 0]
CellSamples ==
    {PoleSample, [tq |-> 1, pq |-> 0], [tq |-> 1, pq |-> 1], [tq |-> 1, pq |-> 2]}

\* at most QTilted cells are drawn away from |1>
LatticeSamples(R, C) ==
    {s \in [Pos(R, C) -> CellSamples] :
        Cardinality({p \in Pos(R, C) : s[p] # PoleSample}) <= QTilted}

\* Manifold(dimensions, "qubit", bc) as the specification describes it: every
\* cell holds an independently sampled Qubit
QubitManifoldInit(dimensions, bc, samples) ==
    [err |-> "", rows |-> dimensions[1], cols |-> dimensions[2],
     infon_type |-> "qubit", boundary_conditions |-> bc,
     grid |-> [p \in Pos(dimensions[1], dimensions[2]) |->
                  QubitObject(QubitInit(NoAmp, NoAmp, samples[p]),
                              p[1] * dimensions[2] + p[2] + 1)]]

ConstructQubits(dimensions, bc, samples) ==
    LET m == QubitManifoldInit(dimensions, bc, samples)
    IN  /\ constructed = TRUE
        /\ rows = m.rows
        /\ cols = m.cols
        /\ infon_type = m.infon_type
        /\ boundary_conditions = m.boundary_conditions
        /\ grid = m.grid
        /\ grid0 = m.grid
        /\ dyn = NoDyn
        /\ call = Called("Manifold", 0, 0, 0, 0, 0, FALSE)
        /\ err = ""
        /\ nset = 0
        /\ gen = 0
        /\ QIdle

InitQ ==
    \E d \in QDims, bc \in CaBoundaries :
        \/ Construct(d, "scalar", bc)
        \/ \E s \in LatticeSamples(d[1], d[2]) : ConstructQubits(d, bc, s)

\* GameOfLifeTRGI(manifold, rule_b, rule_s)
NewGameOfLife ==
    /\ constructed
    /\ dyn.kind = "none"
    /\ \E rule \in CaRules :
          LET res == GameOfLifeInit(infon_type, rule[1], rule[2])
          IN  /\ dyn' = res.dyn
              /\ err' = res.err
    /\ call' = Called("GameOfLifeTRGI", 0, 0, 0, 0, 0, FALSE)
    /\ UNCHANGED <<mvars, grid, nset, gen, grid0, qvars>>

\* the (J, dt, use_geometric_coupling) arguments tried, h = 0: J in quarters,
\* dt in units of pi, chosen so that J_eff * dt is a multiple of pi/2
HamArgs == {<<JOne, 1, TRUE>>, <<JOne, 1, FALSE>>, <<2, 1, FALSE>>, <<2, 2, TRUE>>}

\* HamiltonianDynamics(manifold, geometry, J, h, dt, use_geometric_coupling)
NewHamiltonian ==
    /\ constructed
    /\ dyn.kind = "none"
    /\ \E a \in HamArgs :
          LET res == HamiltonianInit(infon_type, a[1], 0, a[2], a[3])
          IN  /\ dyn' = res.dyn
              /\ err' = res.err
    /\ call' = Called("HamiltonianDynamics", 0, 0, 0, 0, 0, FALSE)
    /\ UNCHANGED <<mvars, grid, nset, gen, grid0, qvars>>

\* one _evolve_pair call of HamiltonianDynamics.step(): the first one enters
\* step(), the last one (or an exception) leaves it
EvolveNextPair ==
    /\ constructed
    /\ dyn.kind = "ham"
    /\ pc = "idle" => gen < QMaxSteps
    /\ LET log == IF pc = "idle" THEN <<>> ELSE evlog
           k == Len(log) + 1
           pr == StepPairs(rows, cols)[k]
       IN  \E res \in {evolve_pair(rows, cols, boundary_conditions, grid, dyn,
                                   pr[2], pr[3])} :
             LET dist == compute_local_metric_analogue(rows, cols, boundary_conditions,
                                                      infon_type, grid,
                                                      res.pos1, res.pos2).q
             IN  /\ grid' = res.grid
                 /\ err' = res.err
                 /\ evlog' = IF res.err # "" THEN log
                              ELSE Append(log, [sub |-> pr[1], pos1 |-> res.pos1,
                                                pos2 |-> res.pos2, J_eff |-> res.J_eff,
                                                dist |-> dist])
                 /\ pc' = IF res.err # "" \/ k = 2 * rows * cols THEN "idle" ELSE "step"
                 /\ call' = Called("hstep", pr[2][1], pr[2][2], 0, 0, 0, FALSE)
    /\ gen' = IF pc = "idle" THEN gen + 1 ELSE gen
    /\ UNCHANGED <<mvars, dyn, nset, grid0, qubit, sim>>

NextQ == NewGameOfLife \/ NewHamiltonian \/ EvolveNextPair

SpecQ == InitQ /\ [][NextQ]_vars

---------------------------------------------------------------------------
(* EmergentGeometry.compute_local_metric_analogue on a lattice of either kind *)

InitDist ==
    \E d \in QDims, bc \in CaBoundaries :
        \/ Construct(d, "scalar", bc)
        \/ \E s \in LatticeSamples(d[1], d[2]) : ConstructQubits(d, bc, s)

\* geometry.compute_local_metric_analogue(p1, p2) for two lattice positions;
\* one query per behaviour, since a query leaves the lattice as it was
CallDistance ==
    /\ constructed
    /\ call.op = "Manifold"
    /\ \E p1 \in Pos(rows, cols), p2 \in Pos(rows, cols) :
          call' = Called("compute_local_metric_analogue", p1, p2, 0,
                         compute_local_metric_analogue(rows, cols, boundary_conditions,
                                                       infon_type, grid, p1, p2),
                         0, FALSE)
    /\ UNCHANGED <<mvars, grid, dyn, err, nset, gen, grid0, qvars>>

SpecDist == InitDist /\ [][CallDistance]_vars

---------------------------------------------------------------------------
(* Qubit(a, b) on its own *)

\* the amplitudes tried, in fifths: real, imaginary or of modulus 1, and such
\* that sqrt(1 - |z|^2) is a multiple of 1/5 or |z| > 1
AmpInputs ==
    {z \in (-QAmp .. QAmp) \X (-QAmp .. QAmp) :
        /\ z[1] = 0 \/ z[2] = 0 \/ CAbs2(z) = AmpDen * AmpDen
        /\ CAbs2(z) \in {0, 9, 16, 25} \/ CAbs2(z) > AmpDen * AmpDen}

AmpArgs == {NoAmp} \cup {Amp(z) : z \in AmpInputs}

InitQubit ==
    /\ constructed = FALSE
    /\ rows = 0
    /\ cols = 0
    /\ infon_type = ""
    /\ boundary_conditions = ""
    /\ grid = NoGrid
    /\ grid0 = NoGrid
    /\ dyn = NoDyn
    /\ call = NoCall
    /\ err = ""
    /\ nset = 0
    /\ gen = 0
    /\ QIdle

NewQubit ==
    /\ \E a \in AmpArgs, b \in AmpArgs, smp \in CellSamples :
          /\ (a.given \/ b.given) => smp = PoleSample
          /\ qubit' = [made |-> TRUE, a |-> a, b |-> b, state |-> QubitInit(a, b, smp)]
    /\ call' = Called("Qubit", 0, 0, 0, 0, 0, FALSE)
    /\ UNCHANGED <<mvars, grid, dyn, err, nset, gen, grid0, pc, evlog, sim>>

\* q.measure() on the last Qubit constructed
Measure ==
    /\ qubit.made
    /\ \E k \in 0 .. USamples - 1 :
          LET res == measure(qubit.state, k)
          IN  /\ qubit' = [qubit EXCEPT !.state = res.state]
              /\ call' = Called("measure", 0, 0, k, res.result, 0, FALSE)
    /\ UNCHANGED <<mvars, grid, dyn, err, nset, gen, grid0, pc, evlog, sim>>

\* q.p0 read on the last Qubit constructed
ReadP0 ==
    /\ qubit.made
    /\ call' = Called("p0", 0, 0, 0, p0(qubit.state), 0, FALSE)
    /\ UNCHANGED <<mvars, grid, dyn, err, nset, gen, grid0, qvars>>

NextQubit == NewQubit \/ Measure \/ ReadP0

SpecQubit == InitQubit /\ [][NextQubit]_vars

---------------------------------------------------------------------------
(* core/quantum_utils.py.  A matrix is a function on index pairs, its entries *)
(* Gaussian integers over a common denominator den.                           *)

CAdd(x, y) == <<x[1] + y[1], x[2] + y[2]>>

\* von_neumann_entropy(rho) of a 2x2 Hermitian matrix of trace 1: "0" when
\* the eigenvalues are 1 and 0 (determinant 0), "1" when both are 1/2
\* (determinant 1/4), "between" otherwise
von_neumann_entropy(rho) ==
    LET det == CAdd(CMul(rho.m[<<0, 0>>], rho.m[<<1, 1>>]),
                    CMul(<<-1, 0>>, CMul(rho.m[<<0, 1>>], rho.m[<<1, 0>>])))
    IN  IF det = CZero THEN "0"
        ELSE IF 4 * det[1] = rho.den * rho.den /\ det[2] = 0 THEN "1"
        ELSE "between"

\* rho = M @ M.conj().T for M = pair_state.reshape(2, 2): a 2x2 matrix
PairRho(ps) ==
    LET M == [ij \in (0 .. 1) \X (0 .. 1) |-> ps.psi[2 * ij[1] + ij[2] + 1]]
    IN  [m |-> [ij \in (0 .. 1) \X (0 .. 1) |->
                   CAdd(CMul(M[<<ij[1], 0>>], CConj(M[<<ij[2], 0>>])),
                        CMul(M[<<ij[1], 1>>], CConj(M[<<ij[2], 1>>])))],
         den |-> ps.n2]

\* the entries of rho the returned matrix is built from, as the code indexes
\* them: (row, column) of the result |-> the two entries of rho added
TraceOutIndices(keep) ==
    IF keep = 0
    THEN [ij \in (0 .. 1) \X (0 .. 1) |->
            CASE ij = <<0, 0>> -> <<<<0, 0>>, <<1, 1>>>>
              [] ij = <<0, 1>> -> <<<<0, 2>>, <<1, 3>>>>
              [] ij = <<1, 0>> -> <<<<2, 0>>, <<3, 1>>>>
              [] OTHER         -> <<<<2, 2>>, <<3, 3>>>>]
    ELSE [ij \in (0 .. 1) \X (0 .. 1) |->
            CASE ij = <<0, 0>> -> <<<<0, 0>>, <<2, 2>>>>
              [] ij = <<0, 1>> -> <<<<0, 1>>, <<2, 3>>>>
              [] ij = <<1, 0>> -> <<<<1, 0>>, <<3, 2>>>>
              [] OTHER         -> <<<<1, 1>>, <<3, 3>>>>]

\* reduced_density_matrix(pair_state, keep): IndexError when an index is
\* outside rho, else the matrix of the sums
reduced_density_matrix(ps, keep) ==
    LET rho == PairRho(ps)
        idx == TraceOutIndices(keep)
    IN  IF \E ij \in DOMAIN idx : \E k \in 1 .. 2 : idx[ij][k] \notin DOMAIN rho.m
        THEN [err |-> "IndexError", rho |-> 0]
        ELSE [err |-> "",
              rho |-> [m |-> [ij \in DOMAIN idx |->
                                CAdd(rho.m[idx[ij][1]], rho.m[idx[ij][2]])],
                       den |-> rho.den]]

\* pair_entanglement_entropy(pair_state)
pair_entanglement_entropy(ps) ==
    LET rho_a == reduced_density_matrix(ps, 0)
    IN  IF rho_a.err # "" THEN [err |-> rho_a.err, H |-> "none"]
        ELSE [err |-> "", H |-> von_neumann_entropy(rho_a.rho)]

---------------------------------------------------------------------------
(* The reprojection of a product pair state, called on its own *)

\* the normalised states Qubit.__init__ builds
QubitStates ==
    {q \in {QubitInit(a, b, smp) :
                a \in AmpArgs, b \in AmpArgs, smp \in CellSamples} : ~q.nan}

InitPair ==
    /\ constructed = FALSE
    /\ rows = 0 /\ cols = 0
    /\ infon_type = "qubit"
    /\ boundary_conditions = "periodic"
    /\ grid = NoGrid
    /\ grid0 = NoGrid
    /\ dyn = NoDyn
    /\ call = NoCall
    /\ err = ""
    /\ nset = 0
    /\ gen = 0
    /\ QIdle

\* pair_state = np.kron(q1.state, q2.state) for two Qubit objects
NewPair ==
    /\ call.op = "none"
    /\ \E q1 \in QubitStates, q2 \in QubitStates :
          call' = Called("kron", 0, 0, [q1 |-> q1, q2 |-> q2], Kron(q1, q2), 0, FALSE)
    /\ UNCHANGED <<mvars, grid, dyn, err, nset, gen, grid0, qvars>>

\* q1_new, q2_new = _unentangle_and_update(pair_state), then
\* Qubit(a=q1_new[0], b=q1_new[1]) and Qubit(a=q2_new[0], b=q2_new[1])
Reproject ==
    /\ call.op = "kron"
    /\ LET new == Unentangle(call.ret)
       IN  call' = Called("_unentangle_and_update", 0, 0, call.value,
                          QubitOf(new.q1), QubitOf(new.q2), FALSE)
    /\ UNCHANGED <<mvars, grid, dyn, err, nset, gen, grid0, qvars>>

\* the four Bell states, each with amplitudes over sqrt(2)
BellStates ==
    {[psi |-> <<COne, CZero, CZero, <<s, 0>>>>, n2 |-> 2] : s \in {1, -1}}
    \cup {[psi |-> <<CZero, COne, <<s, 0>>, CZero>>, n2 |-> 2] : s \in {1, -1}}

\* a maximally entangled pair state given as a 4-component array
NewBell ==
    /\ call.op = "none"
    /\ \E ps \in BellStates : call' = Called("bell", 0, 0, 0, ps, 0, FALSE)
    /\ UNCHANGED <<mvars, grid, dyn, err, nset, gen, grid0, qvars>>

\* reduced_density_matrix(pair_state, keep) on the pair state at hand
ReducedDensityMatrix ==
    /\ call.op \in {"kron", "bell"}
    /\ \E keep \in 0 .. 1 :
          LET res == reduced_density_matrix(call.ret, keep)
          IN  /\ err' = res.err
              /\ call' = Called("reduced_density_matrix", keep, 0,
                                [ps |-> call.ret, product |-> call.op = "kron"],
                                res.rho, 0, FALSE)
    /\ UNCHANGED <<mvars, grid, dyn, nset, gen, grid0, qvars>>

\* pair_entanglement_entropy(pair_state) on the pair state at hand
PairEntanglementEntropy ==
    /\ call.op \in {"kron", "bell"}
    /\ LET res == pair_entanglement_entropy(call.ret)
       IN  /\ err' = res.err
           /\ call' = Called("pair_entanglement_entropy", 0, 0,
                             [ps |-> call.ret, product |-> call.op = "kron"],
                             res.H, 0, FALSE)
    /\ UNCHANGED <<mvars, grid, dyn, nset, gen, grid0, qvars>>

NextPair ==
    NewPair \/ Reproject \/ NewBell \/ ReducedDensityMatrix \/ PairEntanglementEntropy

SpecPair == InitPair /\ [][NextPair]_vars

---------------------------------------------------------------------------
(* gui/interactive_sim_mpl.py: TRGIInteractiveSim, the driver.  The model    *)
(* keeps which calls raise and what is appended to self.history; the values *)
(* of the fields and of the samples are not computed.                       *)

\* Manifold.neighbor_indices(pos) as the specification describes it: the 8
\* Moore neighbours, wrapped when periodic, left out when outside a fixed grid
neighbor_indices(R, C, bc, pos) ==
    {n \in {<<(IF bc = "periodic" THEN (pos[1] + MooreOffsets[k][1]) % R
               ELSE pos[1] + MooreOffsets[k][1]),
              (IF bc = "periodic" THEN (pos[2] + MooreOffsets[k][2]) % C
               ELSE pos[2] + MooreOffsets[k][2])>> :
                k \in DOMAIN MooreOffsets} : InRange(R, C, n[1], n[2])}

\* EmergentGeometry.compute_curvature_field(): the exception raised, if any;
\* the distance to every neighbour of every cell is computed
compute_curvature_field(R, C, bc, itype, G) ==
    IF \E p \in Pos(R, C) : \E n \in neighbor_indices(R, C, bc, p) :
          itype = "qubit" /\ get_infon_state(R, C, bc, G, n[1], n[2]).err # ""
    THEN "IndexError" ELSE ""

\* TTensor.compute_T_matrix_global(): the exception raised, if any;
\* compute_T00_local wraps (r, c + 1) and builds the local Hamiltonian of
\* every cell
compute_T_matrix_global(R, C, bc, G, d) ==
    IF \E p \in Pos(R, C) :
          \/ apply_boundary_conditions(R, C, bc, p[1], p[2] + 1).err # ""
          \/ get_local_hamiltonian(R, C, bc, G, d, p, p).err # ""
    THEN "IndexError" ELSE ""

\* metrics.shannon_entropy(grid): the exception raised, if any; it reads
\* q.state of every cell, which a float cell does not have
shannon_entropy(itype, G) == IF itype = "scalar" THEN "AttributeError" ELSE ""

\* a read of a cached field: which one, and the grid it was computed from
ReadOf(field, of) == [field |-> field, of |-> of]

\* _collect_metrics() without its two compute_... calls
collect_metrics_without_recompute(R, C, bc, itype, G, d, tensor, history, step_count, fields) ==
    LET h1 == [history EXCEPT !.step = Append(@, step_count)]
        e3 == shannon_entropy(itype, G)
        h2 == [h1 EXCEPT !.entropy = Append(@, step_count)]
        h3 == [h2 EXCEPT !.avg_curvature = Append(@, step_count)]
        h4 == IF tensor THEN [h3 EXCEPT !.avg_energy = Append(@, step_count)] ELSE h3
    IN  IF e3 # "" THEN [err |-> e3, history |-> h1, fields |-> fields, reads |-> <<>>]
        ELSE [err |-> "", history |-> h4, fields |-> fields,
              reads |-> <<ReadOf("curvature", fields.curvature_of)>>
                        \o (IF tensor THEN <<ReadOf("energy", fields.energy_of)>>
                            ELSE <<>>)]

\* _collect_metrics(): the exception raised, if any, self.history and the
\* cached fields as the call leaves them, and the reads of cached fields it
\* made (np.mean of each field for the history)
collect_metrics(R, C, bc, itype, G, d, tensor, history, step_count, fields) ==
    LET e1 == compute_curvature_field(R, C, bc, itype, G)
        f1 == [fields EXCEPT !.curvature_of = G]
        e2 == IF tensor THEN compute_T_matrix_global(R, C, bc, G, d) ELSE ""
        f2 == IF tensor THEN [f1 EXCEPT !.energy_of = G] ELSE f1
        h1 == [history EXCEPT !.step = Append(@, step_count)]
        e3 == shannon_entropy(itype, G)
        h2 == [h1 EXCEPT !.entropy = Append(@, step_count)]
        h3 == [h2 EXCEPT !.avg_curvature = Append(@, step_count)]
        h4 == IF tensor THEN [h3 EXCEPT !.avg_energy = Append(@, step_count)] ELSE h3
    IN  IF e1 # "" THEN [err |-> e1, history |-> history, fields |-> fields,
                         reads |-> <<>>]
        ELSE IF e2 # "" THEN [err |-> e2, history |-> history, fields |-> f1,
                              reads |-> <<>>]
        ELSE IF e3 # "" THEN [err |-> e3, history |-> h1, fields |-> f2, reads |-> <<>>]
        ELSE [err |-> "", history |-> h4, fields |-> f2,
              reads |-> <<ReadOf("curvature", f2.curvature_of)>>
                        \o (IF tensor THEN <<ReadOf("energy", f2.energy_of)>>
                            ELSE <<>>)]

\* _refresh_plot(): the reads of cached fields it makes
refresh_plot(tensor, fields) ==
    <<ReadOf("curvature", fields.curvature_of)>>
    \o (IF tensor THEN <<ReadOf("energy", fields.energy_of)>> ELSE <<>>)

\* _initialize_simulation() for the parameters of the configuration, with the
\* random draws u (scalar cells) and samples (qubit cells): the exception
\* raised, if any, and the objects as the call leaves them.  h is 0.
initialize_simulation(params, u, samples) ==
    LET dims == params.manifold_dims
        itype == params.infon_type
        bc == params.boundary_conditions
        m == IF itype = "scalar" THEN ManifoldInit(dims, itype, bc)
             ELSE QubitManifoldInit(dims, bc, samples)
        g == IF itype = "scalar"
             THEN initialize_infons(m.rows, m.cols, m.grid, "random",
                                    Kw(1, u, NoPattern, 0)).grid
             ELSE m.grid
        dy == IF itype = "scalar" THEN GameOfLifeInit(itype, Omitted, Omitted)
              ELSE HamiltonianInit(itype, params.J, 0, params.dt,
                                   params.use_geometric_coupling)
        tensor == itype # "scalar"
        cm == collect_metrics(m.rows, m.cols, bc, itype, g, dy.dyn, tensor, NoHistory, 0,
                              NoFields)
    IN  [err |-> IF m.err # "" THEN m.err ELSE IF dy.err # "" THEN dy.err ELSE cm.err,
         rows |-> m.rows, cols |-> m.cols, infon_type |-> itype,
         boundary_conditions |-> bc, grid |-> g, dyn |-> dy.dyn,
         tensor |-> tensor,
         history |-> IF m.err # "" \/ dy.err # "" THEN NoHistory ELSE cm.history,
         fields |-> IF m.err # "" \/ dy.err # "" THEN NoFields ELSE cm.fields,
         reads |-> IF m.err # "" \/ dy.err # "" THEN <<>> ELSE cm.reads]

\* the lattice after the loop of _on_clear on a qubit lattice: every cell a
\* new Qubit(a=1.0, b=0.0)
ClearedQubits(R, C, G) ==
    [p \in Pos(R, C) |->
        QubitObject(QubitOf(Vec(COne, CZero, 1)), NextId(G) + p[1] * C + p[2])]

\* the lattices of the driver
GuiDims == {d \in (1 .. GuiCells) \X (1 .. GuiCells) : d[1] * d[2] <= GuiCells}

\* the (J, dt, use_geometric_coupling) of the configurations tried
GuiHamArgs == {<<JOne, 1, TRUE>>, <<2, 1, FALSE>>}

\* the configurations tried: manifold_dims, infon_type, boundary_conditions,
\* J, dt, use_geometric_coupling
GuiParams ==
    {[manifold_dims |-> d, infon_type |-> t, boundary_conditions |-> bc,
      J |-> a[1], dt |-> a[2], use_geometric_coupling |-> a[3]] :
        d \in GuiDims, t \in InfonTypes, bc \in CaBoundaries, a \in GuiHamArgs}

\* the random draws of one _initialize_simulation() call
GuiDraws(params) ==
    LET R == params.manifold_dims[1]
        C == params.manifold_dims[2]
    IN  IF params.infon_type = "scalar"
        THEN {[u |-> u, samples |-> [p \in Pos(R, C) |-> PoleSample]] :
                 u \in RandSamples(R, C)}
        ELSE {[u |-> ZeroGrid(R, C), samples |-> sm] :
                 sm \in {x \in LatticeSamples(R, C) :
                            Cardinality({p \in Pos(R, C) : x[p] # PoleSample})
                                <= GuiTilted}}

\* the outcomes of _initialize_simulation() for each configuration tried,
\* one for each random draw
GuiStarts ==
    [params \in GuiParams |->
        {initialize_simulation(params, draw.u, draw.samples) : draw \in GuiDraws(params)}]

\* TRGIInteractiveSim(config): the state when __init__ returns or raises
InitGui ==
    \E params \in GuiParams :
        \E res \in GuiStarts[params] :
            /\ constructed = TRUE
            /\ rows = res.rows
            /\ cols = res.cols
            /\ infon_type = res.infon_type
            /\ boundary_conditions = res.boundary_conditions
            /\ grid = res.grid
            /\ grid0 = res.grid
            /\ dyn = res.dyn
            /\ call = Called("TRGIInteractiveSim", 0, 0, 0,
                             IF res.err # "" THEN res.reads
                             ELSE res.reads \o refresh_plot(res.tensor, res.fields),
                             0, FALSE)
            /\ err = res.err
            /\ nset = 0
            /\ gen = 0
            /\ pc = "idle" /\ evlog = <<>> /\ qubit = NoQubit
            /\ sim = [made |-> res.err = "", running |-> FALSE, step_count |-> 0,
                      tensor |-> res.tensor, history |-> res.history,
                      fields |-> res.fields]

\* _on_play_pause
OnPlayPause ==
    /\ sim.made
    /\ sim' = [sim EXCEPT !.running = ~sim.running]
    /\ call' = Called("_on_play_pause", 0, 0, 0, <<>>, 0, FALSE)
    /\ UNCHANGED <<mvars, grid, dyn, err, nset, gen, grid0, pc, evlog, qubit>>

\* _simulation_step(): dynamics.step(), step_count += 1, _collect_metrics();
\* an exception ends it where it is raised
SimulationStep(name) ==
    /\ sim.step_count < GuiMaxSteps
    /\ \E st \in {IF dyn.kind = "gol"
                   THEN [err |-> "",
                         grid |-> GameOfLifeStep(rows, cols, boundary_conditions,
                                                 dyn, grid)]
                   ELSE HamiltonianStep(rows, cols, boundary_conditions, grid, dyn)} :
          \E cm \in {collect_metrics(rows, cols, boundary_conditions, infon_type,
                                     st.grid, dyn, sim.tensor, sim.history,
                                     sim.step_count + 1, sim.fields)} :
              /\ grid' = st.grid
              /\ err' = IF st.err # "" THEN st.err ELSE cm.err
              /\ sim' = IF st.err # "" THEN sim
                        ELSE [sim EXCEPT !.step_count = @ + 1, !.history = cm.history,
                                         !.fields = cm.fields]
              /\ call' = Called(name, 0, 0, 0,
                                IF st.err # "" THEN <<>>
                                ELSE IF cm.err # "" THEN cm.reads
                                ELSE cm.reads \o refresh_plot(sim.tensor, cm.fields),
                                0, FALSE)
    /\ UNCHANGED <<mvars, dyn, nset, gen, grid0, pc, evlog, qubit>>

\* _on_step: a step when the animation is not running
OnStep == sim.made /\ ~sim.running /\ SimulationStep("_on_step")

\* _update_frame: a frame of the running animation
UpdateFrame == sim.made /\ sim.running /\ SimulationStep("_update_frame")

\* _on_clear: pause, clear the lattice, _collect_metrics()
OnClear ==
    /\ sim.made
    /\ Len(sim.history.step) < GuiMaxLen
    /\ \E g \in {IF infon_type = "scalar"
                  THEN initialize_infons(rows, cols, grid, "clear",
                                         Kw(1, ZeroGrid(rows, cols), NoPattern, 0)).grid
                  ELSE ClearedQubits(rows, cols, grid)} :
          \E cm \in {collect_metrics(rows, cols, boundary_conditions, infon_type, g,
                                     dyn, sim.tensor, sim.history, sim.step_count,
                                     sim.fields)} :
              /\ grid' = g
              /\ err' = cm.err
              /\ sim' = [sim EXCEPT !.running = FALSE, !.history = cm.history,
                                    !.fields = cm.fields]
              /\ call' = Called("_on_clear", 0, 0, 0,
                                IF cm.err # "" THEN cm.reads
                                ELSE cm.reads \o refresh_plot(sim.tensor, cm.fields),
                                0, FALSE)
    /\ UNCHANGED <<mvars, dyn, nset, gen, grid0, pc, evlog, qubit>>

\* _on_reset: pause, then _initialize_simulation() with the same parameters
OnReset ==
    /\ sim.made
    /\ LET params == [manifold_dims |-> <<rows, cols>>, infon_type |-> infon_type,
                      boundary_conditions |-> boundary_conditions,
                      J |-> dyn.J_base, dt |-> dyn.dt,
                      use_geometric_coupling |-> dyn.use_geometric_coupling]
       IN  \E res \in GuiStarts[params] :
                  /\ grid' = res.grid
                  /\ grid0' = res.grid
                  /\ dyn' = res.dyn
                  /\ err' = res.err
                  /\ sim' = [sim EXCEPT !.running = FALSE, !.step_count = 0,
                                        !.tensor = res.tensor,
                                        !.history = res.history,
                                        !.fields = res.fields]
                  /\ call' = Called("_on_reset", 0, 0, 0,
                                    IF res.err # "" THEN res.reads
                                    ELSE res.reads \o refresh_plot(res.tensor, res.fields),
                                    0, FALSE)
    /\ UNCHANGED <<mvars, nset, gen, pc, evlog, qubit>>

\* _on_analyze: plot_correlation reads geometry.curvature_field and
\* tensor.T00_matrix (AttributeError when there is no tensor)
OnAnalyze ==
    /\ sim.made
    /\ call.op # "_on_analyze"
    /\ err' = IF sim.tensor THEN "" ELSE "AttributeError"
    /\ call' = Called("_on_analyze", 0, 0, 0,
                      <<ReadOf("curvature", sim.fields.curvature_of)>>
                      \o (IF sim.tensor THEN <<ReadOf("energy", sim.fields.energy_of)>>
                          ELSE <<>>),
                      0, FALSE)
    /\ UNCHANGED <<mvars, grid, dyn, nset, gen, grid0, qvars>>

\* _on_3d_view: compute_curvature_field(), compute_T_matrix_global() when
\* there is a tensor, then the plots of the two fields
On3dView ==
    /\ sim.made
    /\ call.op # "_on_3d_view"
    /\ LET e1 == compute_curvature_field(rows, cols, boundary_conditions, infon_type, grid)
           e2 == IF sim.tensor
                 THEN compute_T_matrix_global(rows, cols, boundary_conditions, grid, dyn)
                 ELSE ""
           f1 == IF e1 = "" THEN [sim.fields EXCEPT !.curvature_of = grid] ELSE sim.fields
           f2 == IF e1 = "" /\ e2 = "" /\ sim.tensor THEN [f1 EXCEPT !.energy_of = grid]
                 ELSE f1
       IN  /\ err' = IF e1 # "" THEN e1 ELSE e2
           /\ sim' = [sim EXCEPT !.fields = f2]
           /\ call' = Called("_on_3d_view", 0, 0, 0,
                             IF e1 # "" \/ e2 # "" THEN <<>>
                             ELSE refresh_plot(sim.tensor, f2),
                             0, FALSE)
    /\ UNCHANGED <<mvars, grid, dyn, nset, gen, grid0, pc, evlog, qubit>>

NextGui ==
    OnPlayPause \/ OnStep \/ UpdateFrame \/ OnClear \/ OnReset \/ OnAnalyze \/ On3dView

SpecGui == InitGui /\ [][NextGui]_vars

---------------------------------------------------------------------------
(* Properties of the classical automaton *)

\* the value of the cell at (r,c) of grid G as a neighbour: wrapped when
\* periodic, 0 outside the grid when fixed
NeighbourValue(G, r, c) ==
    IF boundary_conditions = "periodic" THEN G[<<r % rows, c % cols>>]
    ELSE IF InRange(rows, cols, r, c) THEN G[<<r, c>>] ELSE 0

\* the sum over the 8 Moore neighbours of (r,c) in grid G
MooreSum(G, r, c) ==
    NeighbourValue(G, r - 1, c - 1) + NeighbourValue(G, r - 1, c)
    + NeighbourValue(G, r - 1, c + 1) + NeighbourValue(G, r, c - 1)
    + NeighbourValue(G, r, c + 1) + NeighbourValue(G, r + 1, c - 1)
    + NeighbourValue(G, r + 1, c) + NeighbourValue(G, r + 1, c + 1)

\* Conway-style rule for one cell with value v and neighbour count n
RuleValue(v, n) ==
    IF v = Unit THEN (IF n \notin dyn.rule_s THEN 0 ELSE v)
    ELSE (IF n \in dyn.rule_b THEN Unit ELSE v)

\* C1: step() is a synchronous whole-grid update: every cell's new value is
\* the rule applied to the values the cell and its 8 Moore neighbours had
\* before the step; alive with count outside the survival set becomes 0, dead
\* with count in the birth set becomes 1, every other cell keeps its value.
C1_SynchronousStep ==
    [][call'.op = "step" =>
         \A p \in Pos(rows, cols) :
            grid'[p] = RuleValue(grid[p], ToInt(MooreSum(grid, p[1], p[2])))]_vars

\* C1 witness: after one step a cell has died, a cell was born and a cell survived
C1_Witness ==
    /\ call.op = "step" /\ gen = 1
    /\ \E p \in Pos(rows, cols) : grid0[p] = Unit /\ grid[p] = 0
    /\ \E p \in Pos(rows, cols) : grid0[p] = 0 /\ grid[p] = Unit
    /\ \E p \in Pos(rows, cols) : grid0[p] = Unit /\ grid[p] = Unit

\* C2: on a periodic lattice of at least 8x8 cells holding the glider, four
\* steps with the default rule give the initial pattern translated by (1,1)
\* and nothing else.
C2_GliderTranslates ==
    gen = 4 =>
        \A p \in Pos(rows, cols) :
            grid[p] = grid0[<<(p[1] - 1) % rows, (p[2] - 1) % cols>>]

\* C2 witness: four steps were taken and the five cells have moved
C2_Witness ==
    /\ gen = 4
    /\ grid # grid0
    /\ Cardinality({p \in Pos(rows, cols) : grid[p] = Unit}) = 5
    /\ dyn.rule_b = {3} /\ dyn.rule_s = {2, 3}

---------------------------------------------------------------------------
(* Properties of the lattice *)

\* x and y differ by a multiple of n
Congruent(x, y, n) == \E k \in -(WrapSpan + 1) .. (WrapSpan + 1) : x = y + k * n

\* C6: Wrap under periodic boundaries returns (r mod rows, c mod cols), in
\* range, for every r, c and never fails; under fixed boundaries it returns
\* (r,c) unchanged when in range and fails with IndexError otherwise.
C6_Wrap ==
    call.op = "wrap" =>
        /\ boundary_conditions = "periodic" =>
              /\ err = ""
              /\ InRange(rows, cols, call.ret, call.ret2)
              /\ Congruent(call.r, call.ret, rows)
              /\ Congruent(call.c, call.ret2, cols)
        /\ boundary_conditions = "fixed" =>
              IF InRange(rows, cols, call.r, call.c)
              THEN err = "" /\ call.ret = call.r /\ call.ret2 = call.c
              ELSE err = "IndexError"

\* C6 witness: a negative row and a column past the end were wrapped
C6_Witness ==
    /\ call.op = "wrap" /\ boundary_conditions = "periodic"
    /\ rows = 3 /\ call.r = -4 /\ call.ret = 2
    /\ cols = 2 /\ call.c = 5 /\ call.ret2 = 1

C9_ConstructFillsEveryCell ==
    (call.op = "Manifold" /\ infon_type \in {"scalar", "qubit"}) =>
        /\ constructed
        /\ DOMAIN grid = Pos(rows, cols)
        /\ infon_type = "scalar" => \A p \in Pos(rows, cols) : grid[p] = 0

---------------------------------------------------------------------------
(* Properties of the Hamiltonian evolution and of Qubit *)

\* the k-th entry of the evolution log is the k-th pair in the claimed order:
\* rows*cols horizontal pairs in row-major order, then rows*cols vertical pairs
InClaimedOrder(e, k) ==
    LET j == (k - 1) % (rows * cols)
        r == j \div cols
        c == j % cols
    IN  IF k <= rows * cols
        THEN e.sub = "hor" /\ e.pos1 = <<r, c>> /\ e.pos2 = <<r, (c + 1) % cols>>
        ELSE e.sub = "ver" /\ e.pos1 = <<r, c>> /\ e.pos2 = <<(r + 1) % rows, c>>

\* C3: one step() on a periodic rows x cols lattice performs exactly
\* 2*rows*cols pair evolutions: the horizontal pair (r,c)-(r,(c+1) mod cols)
\* for every (r,c) in row-major order, and only after all of them the vertical
\* pair (r,c)-((r+1) mod rows,c) for every (r,c).
C3_SweepOrder ==
    (constructed /\ dyn.kind = "ham" /\ boundary_conditions = "periodic") =>
        /\ Len(evlog) <= 2 * rows * cols
        /\ \A k \in 1 .. Len(evlog) : InClaimedOrder(evlog[k], k)
        /\ pc = "step" => Len(evlog) < 2 * rows * cols
        /\ (pc = "idle" /\ call.op = "hstep") => Len(evlog) = 2 * rows * cols

\* C3 witness: a completed step on a periodic 2x2 lattice that changed a cell
C3_Witness ==
    /\ boundary_conditions = "periodic" /\ rows = 2 /\ cols = 2
    /\ pc = "idle" /\ call.op = "hstep"
    /\ Len(evlog) = 8
    /\ grid # grid0

\* C4 as claimed: with geometric coupling, the J_eff used to evolve any pair
\* (pos1,pos2) is J_base * (1 - dist/pi) with dist the informational distance
\* between pos1 and pos2 (dist in units of pi/2).
C4_CouplingFromPairDistance ==
    (dyn.kind = "ham" /\ dyn.use_geometric_coupling) =>
        \A k \in 1 .. Len(evlog) :
            2 * evlog[k].J_eff = dyn.J_base * (2 - evlog[k].dist)

\* |a|^2 + |b|^2 = 1 for the state vector q
IsNormalised(q) == ~q.nan /\ q.n2 > 0 /\ CAbs2(q.a) + CAbs2(q.b) = q.n2

\* C5 as claimed: every Qubit is normalised, whichever amplitudes it was
\* constructed from, and so is every cell of a qubit lattice after any number
\* of step() calls.
C5_EveryQubitNormalised ==
    /\ qubit.made => IsNormalised(qubit.state)
    /\ (constructed /\ infon_type = "qubit") =>
           \A p \in Pos(rows, cols) : IsNormalised(grid[p])

\* C10: each dynamics constructor validates the lattice mode: GameOfLifeTRGI
\* on a lattice that is not scalar and HamiltonianDynamics on a lattice that
\* is not qubit raise, leave no dynamics object and leave the lattice as it
\* was; step() therefore never runs on a lattice of the wrong mode.
C10_ConstructorsValidateMode ==
    [][ /\ (call'.op = "GameOfLifeTRGI" /\ infon_type # "scalar") =>
              (err' = "ValueError" /\ dyn' = NoDyn /\ grid' = grid /\ mvars' = mvars)
        /\ (call'.op = "HamiltonianDynamics" /\ infon_type # "qubit") =>
              (err' = "ValueError" /\ dyn' = NoDyn /\ grid' = grid /\ mvars' = mvars)
        /\ dyn'.kind = "gol" => infon_type' = "scalar"
        /\ dyn'.kind = "ham" => infon_type' = "qubit" ]_vars

\* C10 witness: both constructors have been refused, one on each kind of lattice
C10_Witness ==
    /\ err = "ValueError" /\ dyn = NoDyn
    /\ \/ call.op = "GameOfLifeTRGI" /\ infon_type = "qubit"
       \/ call.op = "HamiltonianDynamics" /\ infon_type = "scalar"

---------------------------------------------------------------------------
(* Properties of the lattice as a container *)

\* C11 as claimed: no lattice exists whose boundary mode is outside
\* {periodic, fixed}: constructing one with another value fails.
C11_BoundaryValidated ==
    constructed => boundary_conditions \in {"periodic", "fixed"}

\* C12: initialize_infons('pattern') with a missing array or an array whose
\* shape differs from (rows, cols) raises and leaves every cell unchanged;
\* with a matching shape it overwrites every cell with the pattern value.
C12_PatternAllOrNothing ==
    [][call'.op = "pattern" =>
         LET pa == call'.value
         IN  IF ~pa.given \/ <<pa.rows, pa.cols>> # <<rows, cols>>
             THEN err' # "" /\ grid' = grid
             ELSE /\ err' = ""
                  /\ DOMAIN grid' = Pos(rows, cols)
                  /\ \A p \in Pos(rows, cols) : grid'[p] = pa.cells[p] * Unit]_vars

\* C12 witness: an array of the wrong shape was refused on a lattice that
\* holds non-zero cells
C12_Witness ==
    /\ call.op = "pattern" /\ err = "ValueError"
    /\ call.value.given
    /\ \E p \in Pos(rows, cols) : grid[p] # 0

\* C13: the grid dimensions are immutable: after any sequence of
\* initialize_infons (failed calls included), set_infon_state and step()
\* the grid has exactly rows x cols cells, rows and cols as constructed.
C13_DimensionsImmutable ==
    /\ [](constructed => DOMAIN grid = Pos(rows, cols))
    /\ [][rows' = rows /\ cols' = cols]_vars

\* C13 witness: a pattern of another shape was refused after a step and a set
C13_Witness ==
    /\ gen >= 1 /\ nset >= 1
    /\ call.op = "pattern" /\ err = "ValueError" /\ call.value.given
    /\ DOMAIN grid = Pos(rows, cols)

\* C14 as claimed: in scalar mode no cell is below 0 or above 1 in any
\* reachable state.
C14_CellsInUnitInterval ==
    (constructed /\ infon_type = "scalar") =>
        \A p \in DOMAIN grid : 0 <= grid[p] /\ grid[p] <= Unit

---------------------------------------------------------------------------
(* Properties of Qubit.measure and Qubit.p0 *)

\* C16: measure() on a state whose amplitudes are numbers returns a bit and
\* leaves the state equal to the basis state of that bit; bit 0 is returned
\* only when |a|^2 > 0 and bit 1 only when |a|^2 < 1; a second measure()
\* returns the same bit as the first; p0 read after a measure is 1 for bit 0
\* and 0 for bit 1, and reading p0 never changes the state.
C16_MeasureCollapses ==
    [][ /\ (call'.op = "measure" /\ ~qubit.state.nan) =>
              /\ call'.ret \in {0, 1}
              /\ qubit'.state = IF call'.ret = 0 THEN Ket0 ELSE Ket1
              /\ call'.ret = 0 => CAbs2(qubit.state.a) > 0
              /\ call'.ret = 1 => CAbs2(qubit.state.a) < qubit.state.n2
        /\ (call'.op = "measure" /\ call.op = "measure") => call'.ret = call.ret
        /\ call'.op = "p0" =>
              /\ qubit' = qubit
              /\ call.op = "measure" =>
                    /\ ~call'.ret.nan
                    /\ call'.ret.num = (IF call.ret = 0 THEN call'.ret.den ELSE 0) ]_vars

\* C16 witness: a superposition was measured as 1, measured again with the
\* sample that would have given 0 before, and p0 was read
C16_Witness ==
    /\ call.op = "p0" /\ call.ret.num = 0
    /\ qubit.state = Ket1
    /\ qubit.a.given /\ qubit.b.given
    /\ CAbs2(qubit.a.z) > 0 /\ CAbs2(qubit.b.z) > 0

---------------------------------------------------------------------------
(* Properties of the reprojection *)

\* two normalised single-qubit states that differ by a global phase only:
\* both of norm 1 and parallel as vectors
SameUpToPhase(q, w) ==
    /\ ~q.nan /\ q.n2 > 0 /\ CAbs2(q.a) + CAbs2(q.b) = q.n2
    /\ ~w.nan /\ w.n2 > 0 /\ CAbs2(w.a) + CAbs2(w.b) = w.n2
    /\ CMul(q.a, w.b) = CMul(w.a, q.b)

\* C17: for a pair state that is the product of two normalised single-qubit
\* states q1 and q2, the reprojection followed by the construction of the two
\* Qubit objects returns q1 and q2 up to a global phase each.
C17_ReprojectionRoundTrip ==
    call.op = "_unentangle_and_update" =>
        /\ SameUpToPhase(call.value.q1, call.ret)
        /\ SameUpToPhase(call.value.q2, call.ret2)

\* C17 witness: the product of two different superpositions, the first
\* with a zero first amplitude in neither factor, was reprojected
C17_Witness ==
    /\ call.op = "_unentangle_and_update"
    /\ call.value.q1 # call.value.q2
    /\ CAbs2(call.value.q1.a) > 0 /\ CAbs2(call.value.q1.b) > 0
    /\ CAbs2(call.value.q2.a) > 0 /\ CAbs2(call.value.q2.b) > 0
    /\ call.value.q2.a[2] # 0

---------------------------------------------------------------------------
(* Properties of the pair-level entanglement utilities *)

\* C18 as claimed: for every 4-component two-qubit pure state the pair-level
\* utilities complete without error: reduced_density_matrix returns a 2x2
\* matrix of trace 1, and pair_entanglement_entropy returns 0 for a product
\* state and 1 bit for a Bell state.
C18_PairUtilitiesComplete ==
    /\ call.op = "reduced_density_matrix" =>
          /\ err = ""
          /\ DOMAIN call.ret.m = (0 .. 1) \X (0 .. 1)
          /\ CAdd(call.ret.m[<<0, 0>>], call.ret.m[<<1, 1>>]) = <<call.ret.den, 0>>
    /\ call.op = "pair_entanglement_entropy" =>
          /\ err = ""
          /\ call.ret = IF call.value.product THEN "0" ELSE "1"

---------------------------------------------------------------------------
(* Properties of the informational distance *)

\* a distance that is exactly 0
IsZeroDistance(d) == d.sq = 0 /\ d.q = 0 /\ d.off = 0

\* d(p2, p1) on the lattice at hand, for the d(p1, p2) just computed
ReverseDistance ==
    compute_local_metric_analogue(rows, cols, boundary_conditions, infon_type,
                                  grid, call.c, call.r)

\* a qubit distance within [0, pi]: between 0 and 2 quarter turns, not below
\* 0 at q = 0 and not above pi at q = 2 (3 stands for an angle strictly
\* between two quarter turns)
InZeroPi(d) ==
    /\ d.q \in 0 .. 3
    /\ d.q = 0 => d.off >= 0
    /\ d.q = 2 => d.off <= 0

---------------------------------------------------------------------------
(* Frame of _evolve_pair *)

\* C20: _evolve_pair(pos1, pos2) computes both replacement states from the
\* states the two cells held before the call and only then writes; the cells
\* at pos1 and pos2 receive newly constructed Qubit objects, no object the
\* lattice held before the call has a different state after it, every other
\* cell keeps its object, and J_base, h, dt and the geometric-coupling flag
\* are unchanged.  A call that raises changes nothing.
C20_EvolvePairFrame ==
    [][call'.op = "hstep" =>
         /\ dyn' = dyn
         /\ <<rows', cols', infon_type', boundary_conditions'>>
               = <<rows, cols, infon_type, boundary_conditions>>
         /\ IF err' # "" THEN grid' = grid
            ELSE LET e == evlog'[Len(evlog')]
                     new == Unentangle(Propagate(e.J_eff * dyn.dt,
                                                 Kron(grid[e.pos1], grid[e.pos2])))
                     held == {grid[p].id : p \in Pos(rows, cols)}
                 IN  /\ \A p \in Pos(rows, cols) \ {e.pos1, e.pos2} : grid'[p] = grid[p]
                     /\ StateOf(grid'[e.pos2]) = QubitOf(new.q2)
                     /\ e.pos1 # e.pos2 =>
                           /\ StateOf(grid'[e.pos1]) = QubitOf(new.q1)
                           /\ grid'[e.pos1].id # grid'[e.pos2].id
                     /\ grid'[e.pos1].id \notin held
                     /\ grid'[e.pos2].id \notin held
                     /\ \A x \in Pos(rows, cols), y \in Pos(rows, cols) :
                           grid'[y].id = grid[x].id => grid'[y] = grid[x] ]_vars

\* C20 witness: a pair of two different cells was evolved on a lattice with
\* a third cell, and the state of the first cell of the pair changed
C20_Witness ==
    /\ call.op = "hstep" /\ err = "" /\ Len(evlog) >= 1
    /\ rows * cols >= 3
    /\ LET e == evlog[Len(evlog)]
       IN  /\ e.pos1 # e.pos2
           /\ StateOf(grid[e.pos1]) # StateOf(grid0[e.pos1])
           /\ gen = 1 /\ Len(evlog) = 1

---------------------------------------------------------------------------
(* Properties of the driver's time series *)

\* C15 as claimed: after the initialisation and any sequence of Step,
\* animation-frame, Clear and Reset events, in scalar mode as well as in
\* qubit mode, the four sequences step, entropy, avg_curvature and avg_energy
\* of the history all have the same length.
C15_HistoryAligned ==
    /\ Len(sim.history.entropy) = Len(sim.history.step)
    /\ Len(sim.history.avg_curvature) = Len(sim.history.step)
    /\ Len(sim.history.avg_energy) = Len(sim.history.step)

---------------------------------------------------------------------------
(* Order of reads and writes within HamiltonianDynamics.step() *)

\* the cell states after one pair evolution e of the log that reads its two
\* cells from grid R and writes them into grid W
PairApplied(R, W, e) ==
    LET new == Unentangle(Propagate(e.J_eff * dyn.dt,
                                    Kron(R[e.pos1], R[e.pos2])))
    IN  [p \in DOMAIN W |->
            IF p = e.pos2 THEN QubitOf(new.q2)
            ELSE IF p = e.pos1 THEN QubitOf(new.q1)
            ELSE StateOf(W[p])]

\* the first k pair evolutions of the log, each reading the cells as the
\* evolutions before it left them
RECURSIVE LiveReplay(_, _, _)
LiveReplay(G, log, k) ==
    IF k = 0 THEN [p \in DOMAIN G |-> StateOf(G[p])]
    ELSE CHOOSE out \in {PairApplied(g, g, log[k]) : g \in {LiveReplay(G, log, k - 1)}} :
             TRUE

\* the first k pair evolutions of the log, each reading the cells of the
\* grid G the step started from
RECURSIVE SnapshotReplay(_, _, _)
SnapshotReplay(G, log, k) ==
    IF k = 0 THEN [p \in DOMAIN G |-> StateOf(G[p])]
    ELSE CHOOSE out \in {PairApplied(G, g, log[k]) : g \in {SnapshotReplay(G, log, k - 1)}} :
             TRUE

\* C21: within step() the pair evolutions act one after the other on the
\* live lattice: during and after the first step() of a run, the lattice is
\* the grid the run started from with the pair evolutions of the log applied
\* in order, the k-th one reading the cells as left by evolutions 1..k-1.
C21_SequentialOnLiveLattice ==
    (constructed /\ dyn.kind = "ham" /\ gen = 1) =>
        [p \in Pos(rows, cols) |-> StateOf(grid[p])] = LiveReplay(grid0, evlog, Len(evlog))

\* C21 witness: during a first step() the pair (r,c)-(r,c+1) was evolved and
\* then (r,c+1)-(r,c+2), and the lattice differs from what the same
\* evolutions give when each reads the grid the step started from
C21_Witness ==
    /\ constructed /\ dyn.kind = "ham" /\ gen = 1 /\ err = ""
    /\ Len(evlog) >= 2
    /\ evlog[2].pos1 = evlog[1].pos2
    /\ [p \in Pos(rows, cols) |-> StateOf(grid[p])]
          # SnapshotReplay(grid0, evlog, Len(evlog))

---------------------------------------------------------------------------
(* Properties of the rule lists of GameOfLifeTRGI *)

\* the set the automaton is claimed to apply for a rule argument: the
\* argument when it was supplied, even empty, else the default
ClaimedRule(arg, default) == IF arg.given THEN arg.val ELSE default

\* C22 as claimed: an automaton constructed with a supplied birth or
\* survival set applies exactly that set in every step, an empty set
\* included (with an empty birth set no dead cell is born, with an empty
\* survival set every alive cell dies); the defaults {3} and {2,3} are used
\* only for an omitted set.
C22_SuppliedRuleApplied ==
    [][call'.op = "step" =>
         LET B == ClaimedRule(call'.value.rule_b, {3})
             S == ClaimedRule(call'.value.rule_s, {2, 3})
         IN  \A p \in Pos(rows, cols) :
                LET n == ToInt(MooreSum(grid, p[1], p[2]))
                IN  grid'[p] = IF grid[p] = Unit
                               THEN (IF n \notin S THEN 0 ELSE grid[p])
                               ELSE (IF n \in B THEN Unit ELSE grid[p])]_vars

---------------------------------------------------------------------------
(* Properties of the driver's cached fields *)

\* the handlers of the driver that read a cached field
FieldReaders ==
    {"TRGIInteractiveSim", "_on_step", "_update_frame", "_on_clear", "_on_reset",
     "_on_analyze", "_on_3d_view"}

\* C23: in the driver a cached field is never read stale: every read of the
\* curvature field or of the energy field made by a handler (history append,
\* plot refresh, Analyze, 3D view) finds the field computed from the lattice
\* as its most recent modification left it.
C23_NoStaleFieldRead ==
    call.op \in FieldReaders =>
        \A k \in DOMAIN call.ret : call.ret[k].of = grid

\* C23 witness: after a step that changed the lattice, and with no handler
\* in between, Analyze read both fields
C23_Witness ==
    /\ call.op = "_on_analyze" /\ err = ""
    /\ Len(call.ret) = 2
    /\ sim.step_count >= 1
    /\ \E p \in Pos(rows, cols) : StateOf(grid[p]) # StateOf(grid0[p])

---------------------------------------------------------------------------
(* Properties of HamiltonianDynamics.step() at the lattice border *)

\* the object identities held by grid G
IdsOf(G) == {G[p].id : p \in DOMAIN G}

\* C24: on a qubit lattice with fixed boundaries and cols >= 2, step() never
\* completes: it raises IndexError at the pair (0, cols-1)-(0, cols), after
\* exactly the cols-1 pair evolutions before it, and by then every cell
\* (0,0)..(0,cols-1) holds a Qubit object the lattice did not hold before,
\* while the cells of the other rows are the objects they were.
C24_FixedStepFailsPartway ==
    (/\ constructed /\ infon_type = "qubit" /\ boundary_conditions = "fixed"
     /\ cols >= 2 /\ dyn.kind = "ham" /\ call.op = "hstep") =>
        /\ Len(evlog) < cols
        /\ pc = "step" => err = ""
        /\ pc = "idle" =>
              /\ err = "IndexError"
              /\ <<call.r, call.c>> = <<0, cols - 1>>
              /\ Len(evlog) = cols - 1
              /\ \A p \in Pos(rows, cols) :
                    IF p[1] = 0 THEN grid[p].id \notin IdsOf(grid0)
                    ELSE grid[p] = grid0[p]

\* C24 witness: a first step() on a fixed lattice of several rows has ended
\* with the error, and a cell of row 0 no longer has the state it had
C24_Witness ==
    /\ constructed /\ infon_type = "qubit" /\ boundary_conditions = "fixed"
    /\ cols >= 2 /\ rows >= 2 /\ dyn.kind = "ham" /\ call.op = "hstep"
    /\ pc = "idle" /\ gen = 1 /\ err = "IndexError"
    /\ \E c \in 0 .. cols - 1 : StateOf(grid[<<0, c>>]) # StateOf(grid0[<<0, c>>])

\* C25: every pair evolution of step() acts on two distinct cells: the two
\* wrapped positions of each evolution performed differ, on every lattice.
C25_PairCellsDistinct ==
    \A k \in DOMAIN evlog : evlog[k].pos1 # evlog[k].pos2

====
